---- MODULE Spec2Model ----
(***************************************************************************)
(* The chess service of viam-chess (package viamchess): DoCommand and the  *)
(* operations it runs (movePiece, makeAMove, checkPositionForMoves,        *)
(* resetBoard, wipe, centerCamera, goToStart), as a state machine.  Each   *)
(* call of a collaborator (arm, gripper, motion service, vision service,   *)
(* engine, state file) is one step, with every outcome the call can have.  *)
(*                                                                         *)
(* The rules engine (github.com/corentings/chess/v2) is a collaborator:    *)
(* its positions, legal moves and move application are the rules of chess. *)
(***************************************************************************)
EXTENDS Integers, Sequences, FiniteSets, TLC

(***************************************************************************)
(* Rules engine: squares A1 = 0 .. H8 = 63, chess.NoSquare = -1.           *)
(***************************************************************************)
Squares == 0..63
FileOf(sq) == sq % 8
RankOf(sq) == sq \div 8
SqAt(f, r) == r * 8 + f
OnBoard(f, r) == f \in 0..7 /\ r \in 0..7

\* chess.Color: NoColor 0, White 1, Black 2; chess.Piece: NoPiece 0,
\* WhiteKing..WhitePawn 1..6, BlackKing..BlackPawn 7..12
PieceColor(pc) == IF pc = 0 THEN 0 ELSE IF pc <= 6 THEN 1 ELSE 2
PieceType(pc) == IF pc = 0 THEN 0 ELSE ((pc - 1) % 6) + 1
MkPiece(color, type) == (color - 1) * 6 + type
Other(color) == 3 - color

KnightSteps == { <<1, 2>>, <<2, 1>>, <<2, -1>>, <<1, -2>>,
                 <<-1, -2>>, <<-2, -1>>, <<-2, 1>>, <<-1, 2>> }
RookDirs == { <<1, 0>>, <<-1, 0>>, <<0, 1>>, <<0, -1>> }
BishopDirs == { <<1, 1>>, <<1, -1>>, <<-1, 1>>, <<-1, -1>> }
KingSteps == RookDirs \cup BishopDirs

StepTo(sq, d) == SqAt(FileOf(sq) + d[1], RankOf(sq) + d[2])
CanStep(sq, d) == OnBoard(FileOf(sq) + d[1], RankOf(sq) + d[2])

RECURSIVE Ray(_, _, _)
\* the empty squares from sq in direction d, and the first occupied one
Ray(board, sq, d) ==
    IF ~CanStep(sq, d) THEN {}
    ELSE LET n == StepTo(sq, d)
         IN  IF board[n] # 0 THEN {n} ELSE {n} \cup Ray(board, n, d)

Attacked(board, sq, by) ==
    \/ \E d \in KnightSteps : CanStep(sq, d) /\ board[StepTo(sq, d)] = MkPiece(by, 5)
    \/ \E d \in KingSteps : CanStep(sq, d) /\ board[StepTo(sq, d)] = MkPiece(by, 1)
    \/ \E df \in {-1, 1} :
          LET d == <<df, IF by = 1 THEN -1 ELSE 1>>
          IN  CanStep(sq, d) /\ board[StepTo(sq, d)] = MkPiece(by, 6)
    \/ \E d \in RookDirs : \E n \in Ray(board, sq, d) :
          board[n] \in {MkPiece(by, 3), MkPiece(by, 2)}
    \/ \E d \in BishopDirs : \E n \in Ray(board, sq, d) :
          board[n] \in {MkPiece(by, 4), MkPiece(by, 2)}

KingSquare(board, color) == CHOOSE sq \in Squares : board[sq] = MkPiece(color, 1)

Mv(s1, s2, promo, tag) == [s1 |-> s1, s2 |-> s2, promo |-> promo, tag |-> tag]

TargetTag(board, n) == IF board[n] # 0 THEN "Capture" ELSE "Quiet"

PawnMoves(pos, sq) ==
    LET turn == pos.turn
        up == IF turn = 1 THEN 1 ELSE -1
        startRank == IF turn = 1 THEN 1 ELSE 6
        lastRank == IF turn = 1 THEN 7 ELSE 0
        promos(n) == IF RankOf(n) = lastRank THEN 2..5 ELSE {0}
        one == <<0, up>>
        push == IF CanStep(sq, one) /\ pos.board[StepTo(sq, one)] = 0
                THEN {Mv(sq, StepTo(sq, one), p, "Quiet") : p \in promos(StepTo(sq, one))}
                     \cup (IF RankOf(sq) = startRank /\ pos.board[StepTo(StepTo(sq, one), one)] = 0
                           THEN {Mv(sq, StepTo(StepTo(sq, one), one), 0, "Quiet")} ELSE {})
                ELSE {}
        caps == UNION { IF ~CanStep(sq, <<df, up>>) THEN {}
                        ELSE LET n == StepTo(sq, <<df, up>>)
                             IN  IF PieceColor(pos.board[n]) = Other(turn)
                                 THEN {Mv(sq, n, p, "Capture") : p \in promos(n)}
                                 ELSE IF n = pos.ep THEN {Mv(sq, n, 0, "EnPassant")}
                                 ELSE {}
                      : df \in {-1, 1} }
    IN  push \cup caps

CastleMoves(pos, sq) ==
    LET turn == pos.turn
        home == IF turn = 1 THEN 4 ELSE 60
        b == pos.board
        free(s) == b[s] = 0
        safe(s) == ~Attacked(b, s, Other(turn))
        ks == IF turn = 1 THEN "K" ELSE "k"
        qs == IF turn = 1 THEN "Q" ELSE "q"
    IN  IF sq # home THEN {}
        ELSE (IF ks \in pos.castle /\ free(home + 1) /\ free(home + 2)
                 /\ safe(home) /\ safe(home + 1) /\ safe(home + 2)
              THEN {Mv(home, home + 2, 0, "KingSideCastle")} ELSE {})
             \cup
             (IF qs \in pos.castle /\ free(home - 1) /\ free(home - 2) /\ free(home - 3)
                 /\ safe(home) /\ safe(home - 1) /\ safe(home - 2)
              THEN {Mv(home, home - 2, 0, "QueenSideCastle")} ELSE {})

PieceMoves(pos, sq) ==
    LET b == pos.board
        t == PieceType(b[sq])
        notOwn(n) == PieceColor(b[n]) # pos.turn
        steps(ds) == {Mv(sq, StepTo(sq, d), 0, TargetTag(b, StepTo(sq, d))) :
                        d \in {e \in ds : CanStep(sq, e) /\ notOwn(StepTo(sq, e))}}
        slides(ds) == UNION { {Mv(sq, n, 0, TargetTag(b, n)) :
                                 n \in {x \in Ray(b, sq, d) : notOwn(x)}} : d \in ds }
    IN  CASE t = 1 -> steps(KingSteps) \cup CastleMoves(pos, sq)
          [] t = 2 -> slides(KingSteps)
          [] t = 3 -> slides(RookDirs)
          [] t = 4 -> slides(BishopDirs)
          [] t = 5 -> steps(KnightSteps)
          [] t = 6 -> PawnMoves(pos, sq)
          [] OTHER -> {}

BoardAfter(pos, m) ==
    LET b == pos.board
        moved == IF m.promo # 0 THEN MkPiece(pos.turn, m.promo) ELSE b[m.s1]
        epVictim == SqAt(FileOf(m.s2), RankOf(m.s1))
        rookFrom == IF m.tag = "KingSideCastle" THEN m.s1 + 3 ELSE m.s1 - 4
        rookTo == IF m.tag = "KingSideCastle" THEN m.s1 + 1 ELSE m.s1 - 1
        castle == m.tag \in {"KingSideCastle", "QueenSideCastle"}
    IN  [sq \in Squares |->
            IF sq = m.s2 THEN moved
            ELSE IF sq = m.s1 THEN 0
            ELSE IF m.tag = "EnPassant" /\ sq = epVictim THEN 0
            ELSE IF castle /\ sq = rookFrom THEN 0
            ELSE IF castle /\ sq = rookTo THEN b[rookFrom]
            ELSE b[sq]]

RightsLost(sq) ==
    CASE sq = 4 -> {"K", "Q"} [] sq = 0 -> {"Q"} [] sq = 7 -> {"K"}
      [] sq = 60 -> {"k", "q"} [] sq = 56 -> {"q"} [] sq = 63 -> {"k"}
      [] OTHER -> {}

Apply(pos, m) ==
    [board |-> BoardAfter(pos, m),
     turn |-> Other(pos.turn),
     castle |-> (pos.castle \ RightsLost(m.s1)) \ RightsLost(m.s2),
     ep |-> IF PieceType(pos.board[m.s1]) = 6 /\ (m.s2 - m.s1 = 16 \/ m.s1 - m.s2 = 16)
            THEN (m.s1 + m.s2) \div 2 ELSE -1]

ValidMoves(pos) ==
    { m \in UNION { PieceMoves(pos, sq) : sq \in {s \in Squares : PieceColor(pos.board[s]) = pos.turn} } :
        LET nb == BoardAfter(pos, m)
        IN  ~Attacked(nb, KingSquare(nb, pos.turn), Other(pos.turn)) }


(***************************************************************************)
(* Positions a state file can hold.  chess.NewGame() is the standard       *)
(* starting position; the others are later positions of a game.            *)
(***************************************************************************)
BoardOf(placed) ==
    [sq \in Squares |-> IF sq \in DOMAIN placed THEN placed[sq] ELSE 0]

StartBoard ==
    [sq \in Squares |->
       LET back == <<3, 5, 4, 2, 1, 4, 5, 3>>
       IN  CASE RankOf(sq) = 0 -> back[FileOf(sq) + 1]
             [] RankOf(sq) = 1 -> 6
             [] RankOf(sq) = 6 -> 12
             [] RankOf(sq) = 7 -> back[FileOf(sq) + 1] + 6
             [] OTHER -> 0]

NewGame ==
    [board |-> StartBoard, turn |-> 1, castle |-> {"K", "Q", "k", "q"}, ep |-> -1]

\* kings and rooks at home, a- and h-pawns: every castle is available
CastleBoard ==
    BoardOf((0 :> 3) @@ (4 :> 1) @@ (7 :> 3) @@ (8 :> 6) @@ (15 :> 6) @@
            (48 :> 12) @@ (55 :> 12) @@ (56 :> 9) @@ (60 :> 7) @@ (63 :> 9))

CastleGame(turn) ==
    [board |-> CastleBoard, turn |-> turn, castle |-> {"K", "Q", "k", "q"}, ep |-> -1]

\* white pawn e5, black pawns d5 (just played d7-d5) and f6: e5xd6 en passant
\* and e5xf6 are both legal
PawnGame ==
    [board |-> BoardOf((4 :> 1) @@ (36 :> 6) @@ (35 :> 12) @@ (45 :> 12) @@ (60 :> 7)),
     turn |-> 1, castle |-> {}, ep |-> 43]

\* the state file: absent, holding a saved state, or torn by a write that
\* failed part-way (os.WriteFile truncates, then writes)
NoFile == [exists |-> FALSE, torn |-> FALSE]
TornFile == [exists |-> TRUE, torn |-> TRUE]
SavedState(fen, graveyard) ==
    [exists |-> TRUE, torn |-> FALSE, fen |-> fen, graveyard |-> graveyard]

StateFiles ==
    { NoFile, SavedState(CastleGame(1), <<>>), SavedState(CastleGame(2), <<>>),
      SavedState(PawnGame, <<12>>) }

\* what the camera sees of a board: the colour code of every square
ColorsOf(board) == [sq \in Squares |-> PieceColor(board[sq])]

(***************************************************************************)
(* Program constants and the bounds of the model.                          *)
(***************************************************************************)
safeZ == 200
GraveyardZ == 60
FloorZ == 12
RetryStep == 10
GripMin == 20

Procs == {1, 2}
\* the count of a go command and the N of a move command go up to MaxCount
MaxCount == 2
\* the height of the top of the tallest piece; an empty square is at BoardZ
MaxTop == 35
BoardZ == 5
TopHeights == {MaxTop - 26, MaxTop - 13, MaxTop}
\* reset moves in one resetBoard
MaxReset == 1
\* the graveyard slots named in the move commands of SpecSlots
MaxSlot == 17

(***************************************************************************)
(* Values of the service.                                                  *)
(***************************************************************************)
\* the from/to strings of a move: a square name, "-", "X<n>", "X" followed by
\* no number, a name no object carries, and the empty string
SqPos(i) == [k |-> "sq", i |-> i]
Hold == [k |-> "hold", i |-> 0]
Slot(n) == [k |-> "slot", i |-> n]
BadSlot == [k |-> "badslot", i |-> 0]
Unknown == [k |-> "unknown", i |-> 0]
Empty == [k |-> "empty", i |-> 0]

cmdStruct(from, to, n, go, reset, wipe, center, skill) ==
    [From |-> from, To |-> to, N |-> n, Go |-> go, Reset |-> reset,
     Wipe |-> wipe, Center |-> center, Skill |-> skill, decodes |-> TRUE]

NoCmd == cmdStruct(Empty, Empty, 0, 0, FALSE, FALSE, FALSE, 0)

MoveCmd(from, to, n) == cmdStruct(from, to, n, 0, FALSE, FALSE, FALSE, 0)
GoCmd(n) == cmdStruct(Empty, Empty, 0, n, FALSE, FALSE, FALSE, 0)
ResetCmd == cmdStruct(Empty, Empty, 0, 0, TRUE, FALSE, FALSE, 0)
WipeCmd == cmdStruct(Empty, Empty, 0, 0, FALSE, TRUE, FALSE, 0)
CenterCmd == cmdStruct(Empty, Empty, 0, 0, FALSE, FALSE, TRUE, 0)
SkillCmd(k) == cmdStruct(Empty, Empty, 0, 0, FALSE, FALSE, FALSE, k)

\* from/to pairs of the move commands sent (e1 = 4, e2 = 12, e4 = 28)
MovePairs ==
    { <<SqPos(4), SqPos(12)>>, <<SqPos(12), SqPos(28)>>, <<SqPos(4), Hold>>,
      <<Slot(0), SqPos(12)>>, <<SqPos(4), Slot(9)>>, <<BadSlot, SqPos(4)>>,
      <<SqPos(4), Unknown>> }

\* the commands sent, one to a run
Commands ==
    { MoveCmd(ft[1], ft[2], n) : ft \in MovePairs, n \in 0..MaxCount }
    \cup { GoCmd(1), ResetCmd, WipeCmd, CenterCmd, SkillCmd(30),
           cmdStruct(SqPos(4), Empty, 1, 0, FALSE, FALSE, FALSE, 0),
           cmdStruct(SqPos(4), SqPos(12), 0, 1, TRUE, TRUE, TRUE, 80),
           cmdStruct(Empty, Empty, 0, 0, TRUE, TRUE, TRUE, 80),
           cmdStruct(Empty, Empty, 0, 0, FALSE, TRUE, TRUE, 80),
           cmdStruct(Empty, Empty, 0, 0, FALSE, FALSE, TRUE, 80),
           NoCmd,
           [NoCmd EXCEPT !.decodes = FALSE] }

\* the commands of several moves, sent on the short game
LongCommands ==
    { GoCmd(n) : n \in 2..MaxCount }
    \cup { cmdStruct(Empty, Empty, 0, 1, TRUE, TRUE, TRUE, 80) }

\* the commands sent two to a run, by two clients
ShortCommands == { WipeCmd, CenterCmd, SkillCmd(30), MoveCmd(SqPos(12), SqPos(28), 1) }

\* what the camera sees of the position of a state file
Seen(f) == ColorsOf(IF f.exists /\ ~f.torn THEN f.fen.board ELSE StartBoard)

\* the boards that differ from what the file says on some squares only
BoardsNear(f, squares) ==
    { [sq \in Squares |-> IF sq \in squares THEN g[sq] ELSE Seen(f)[sq]] :
        g \in [squares -> 0..2] }

ShortFile == SavedState(PawnGame, <<12>>)

\* the squares a person touches: d5, e5, d6, e6, f6 of the short game, the
\* first rank of the castle game with white to move, the last with black
Touched(f) ==
    IF f = ShortFile THEN {35, 36, 43, 44, 45}
    ELSE IF f = SavedState(CastleGame(1), <<>>) THEN {0, 2, 3, 4, 5, 6, 7}
    ELSE IF f = SavedState(CastleGame(2), <<>>) THEN {56, 58, 59, 60, 61, 62, 63}
    ELSE {1, 12, 18, 28}

\* a run: the state file and the board at the start, and the calls made
Scenario(f, board, calls) == [file |-> f, phys |-> board, calls |-> calls]

Scenarios ==
    { Scenario(f, Seen(f), <<c>>) : f \in StateFiles, c \in Commands }
    \cup { Scenario(ShortFile, Seen(ShortFile), <<c>>) : c \in LongCommands }
    \cup { Scenario(ShortFile, b, <<GoCmd(1)>>) : b \in BoardsNear(ShortFile, Touched(ShortFile)) }
    \cup { Scenario(f, Seen(f), <<c1, c2>>) :
             f \in {NoFile, ShortFile}, c1 \in ShortCommands, c2 \in ShortCommands }
    \cup { Scenario(ShortFile, b, <<WipeCmd, GoCmd(1)>>) :
             b \in {Seen(ShortFile), Seen(NoFile)} }

Res(kind, why, move) == [kind |-> kind, why |-> why, move |-> move]
NoMove == Mv(-1, -1, 0, "None")
Ok == Res("ok", "", NoMove)
Err(why) == Res("err", why, NoMove)
Panic(why) == Res("panic", why, NoMove)

NoState == [ok |-> FALSE]
State(game, graveyard) == [ok |-> TRUE, game |-> game, graveyard |-> graveyard]
NoSnap == [ok |-> FALSE]
Snap(colors) == [ok |-> TRUE, color |-> colors]

\* a world position of the gripper: the centre of a square, the blended
\* centre/high point of an occupied square, a graveyard slot, the start pose
Loc(at, i, ex) == [at |-> at, i |-> i, ex |-> ex]
StartLoc == Loc("start", 0, 0)
NoLoc == Loc("none", 0, 0)

Frame(from, to, tracked) ==
    [from |-> from, to |-> to, tracked |-> tracked,
     useZ |-> 100, c |-> NoLoc, got |-> FALSE, tries |-> 0, z0 |-> 100]

Action(p, kind, by, loc, z) == [p |-> p, kind |-> kind, by |-> by, loc |-> loc, z |-> z]
NoAction == Action(0, "none", "", NoLoc, 0)

\* a point of a cloud: its height, and its colour when it has one
Point(z, colored, rgb) ==
    [z |-> z, colored |-> colored, r |-> rgb[1], g |-> rgb[2], b |-> rgb[3]]

\* the estimate of estimatePieceColor over the cloud pc, i points iterated;
\* color is -1 until the function has returned
Estimate(pc) ==
    [pc |-> pc, i |-> 1, totalR |-> 0, totalG |-> 0, totalB |-> 0, count |-> 0,
     color |-> -1]
NoEstimate == Estimate(<<>>)

\* an error value: the texts of its chain, the outermost first
NoError == <<>>
NewError(text) == <<text>>
\* fmt.Errorf("<text>: %w", err)
WrapError(text, err) == <<text>> \o err

\* what the source camera and the corner finder do in one call of the
\* rectifier: the errors they return (NoError for none), the number of images
\* and of corners, and whether the camera has intrinsic parameters
Source(pcErr, imagesErr, nImgs, decodeErr, findErr, nCorners, propsErr, intrinsics) ==
    [pcErr |-> pcErr, imagesErr |-> imagesErr, nImgs |-> nImgs,
     decodeErr |-> decodeErr, findErr |-> findErr, nCorners |-> nCorners,
     propsErr |-> propsErr, intrinsics |-> intrinsics]

\* a call of the rectifier: path is "image" (getTransformedImage) or
\* "pointcloud" (NextPointCloud); value is what it returned with err
Call(path, src) ==
    [path |-> path, src |-> src,
     pc |-> IF path = "pointcloud" THEN "NextPointCloud" ELSE "Images",
     value |-> "none", err |-> NoError]
NoCall ==
    [Call("image", Source(NoError, NoError, 0, NoError, NoError, 0, NoError, FALSE))
       EXCEPT !.pc = "idle"]

\* the computation of the two matrices of the rectifier for the corners src
\* and the output size n: "toSrc" is computePerspectiveMatrix(dst, src) of
\* perspectiveTransform, "toDst" is computePerspectiveMatrix(src, dst) of
\* filterAndTransformPointCloud. A holds the rows of [A | b]; zeroPivot says
\* that solveLinearSystem met a pivot equal to 0
Solve(src, n) ==
    [src |-> src, n |-> n, which |-> "toSrc", phase |-> "build", A |-> <<>>,
     col |-> 0, x |-> <<>>, toSrc |-> <<>>, toDst |-> <<>>, zeroPivot |-> FALSE]
NoSolve == [Solve(<<>>, 0) EXCEPT !.phase = "idle"]

\* a call of filterAndTransformPointCloud(pc, corners, outputSize, props):
\* todo holds the points of pc not yet iterated, filtered the output cloud
Filter(pc, corners, n) ==
    [pc |-> pc, corners |-> corners, n |-> n, phase |-> "matrix", matrix |-> <<>>,
     todo |-> pc, filtered |-> {}]
NoCloud == [Filter({}, <<>>, 0) EXCEPT !.phase = "idle"]

\* a call of bilinearSample(src, x, y, bounds) on an image of w x h pixels: x
\* and y are fractions, read holds the pixel coordinates handed to src.At
Sample(x, y, w, h) ==
    [x |-> x, y |-> y, bounds |-> [Min |-> <<0, 0>>, Max |-> <<w, h>>],
     phase |-> "sample", read |-> <<>>]
NoSample == [Sample(<<0, 1>>, <<0, 1>>, 0, 0) EXCEPT !.phase = "idle"]

\* a call of PieceFinder.CaptureAllFromCamera: in is what the input camera
\* and the other collaborators hand back, squares the list BoardDebugImageHack
\* builds, objects and detections the fields of the VisCapture returned
Capture(in) ==
    [in |-> in, pc |-> "Images", squares |-> <<>>, objects |-> <<>>,
     detections |-> <<>>, err |-> NoError, value |-> "none"]
NoCapture ==
    [Capture([imagesErr |-> NoError, pcErr |-> NoError, nImgs |-> 0,
              decodeErr |-> NoError, size |-> <<0, 0>>, view |-> <<>>])
       EXCEPT !.pc = "idle"]

VARIABLES
    lock,         \* doCommandLock: 0 when free, else the caller holding it
    proc,         \* per caller: where its DoCommand call is, and its locals
    ret,          \* per caller: what its last DoCommand call returned
    file,         \* the state file (fenFile)
    skillAdjust,  \* s.skillAdjust
    phys,         \* the physical board: colour code standing on each square
    held,         \* colour code of the piece in the gripper, 0 when none
    arm,          \* where the gripper is
    act,          \* the last call made to a collaborator
    pending,      \* the commands the clients have still to send
    finder,       \* the piece finder's colour estimate of one square's points
    cam,          \* the board rectifier (BoardFinderCam): one call on it
    solve,        \* the rectifier's pair of perspective matrices being computed
    yard,         \* the places off the board where the gripper has set a piece down
    cloud,        \* the rectifier's filterAndTransformPointCloud: one call of it
    sample,       \* the rectifier's bilinearSample: one call of it
    vis           \* the piece finder's CaptureAllFromCamera: one call of it

vars == <<lock, proc, ret, file, skillAdjust, phys, held, arm, act, pending, finder, cam, solve, yard, cloud, sample, vis>>

IdleProc ==
    [pc |-> "idle", cmd |-> NoCmd, x |-> 0, st |-> NoState, m |-> NoMove,
     all |-> NoSnap, fr |-> <<>>, mpCtx |-> "", gsCtx |-> "", res |-> Ok,
     body |-> Ok, homeErr |-> FALSE, fn |-> "", fileAtCall |-> NoFile,
     file0 |-> NoFile,
     committed |-> FALSE, moved |-> FALSE, failed |-> FALSE, mpRes |-> Ok,
     cancelled |-> FALSE, target |-> NoAction, gripped |-> FALSE]

NoRet == [valid |-> FALSE]

InitService ==
    /\ lock = 0
    /\ proc = [p \in Procs |-> IdleProc]
    /\ ret = [p \in Procs |-> NoRet]
    /\ skillAdjust = 50
    /\ held = 0
    /\ arm = StartLoc
    /\ act = NoAction

Init ==
    /\ InitService
    /\ finder = NoEstimate
    /\ cam = NoCall
    /\ solve = NoSolve
    /\ yard = {}
    /\ cloud = NoCloud
    /\ sample = NoSample
    /\ vis = NoCapture
    /\ \E sc \in Scenarios :
         /\ file = sc.file
         /\ phys = sc.phys
         /\ pending = sc.calls

(***************************************************************************)
(* DoCommand: lock, deferred goToStart, decode and dispatch.               *)
(***************************************************************************)
P(p) == proc[p]
Top(pr) == pr.fr[Len(pr.fr)]
SetTop(pr, f) == [pr EXCEPT !.fr = [@ EXCEPT ![Len(@)] = f]]

\* a lock that lets every caller in (the service without doCommandLock)
CanLockAlways(holder) == TRUE

\* s.doCommandLock.Lock() returns when no caller holds the lock
CanLock(holder) == holder = 0

\* goToStart is entered; ctx says who called it
GoToStart(pr, ctx) == [pr EXCEPT !.pc = "goToStart:SetPosition", !.gsCtx = ctx]

\* a deferred function that hands the error of goToStart to the caller
DeferredResultFatal(res, failed) == IF failed THEN [res EXCEPT !.kind = "err", !.why = "can't go home"] ELSE res

\* the deferred function logs the error of goToStart and drops it
DeferredResult(res, failed) == res

\* DoCommand returns res: the deferred goToStart runs, then the unlock
Return(pr, res) ==
    GoToStart([pr EXCEPT !.res = res, !.body = res, !.fr = <<>>, !.x = 0,
                         !.st = NoState, !.m = NoMove, !.all = NoSnap,
                         !.mpCtx = "", !.mpRes = Ok, !.target = NoAction],
              "defer")

\* makeAMove is entered (its first statement is goToStart); f0 is the state
\* file at that time
EnterMakeAMove(pr, f0) ==
    GoToStart([pr EXCEPT !.fn = "makeAMove", !.file0 = f0, !.committed = FALSE,
                         !.moved = FALSE, !.failed = FALSE, !.m = NoMove,
                         !.st = NoState,
                         !.all = NoSnap, !.mpRes = Ok],
              "makeAMove")

StartMakeAMove(pr) == EnterMakeAMove(pr, file)

\* movePiece(ctx, data, theState, from, to, m) is called; tracked says theState
\* is not nil
CallMovePiece(pr, from, to, tracked, ctx) ==
    [pr EXCEPT !.fr = Append(@, Frame(from, to, tracked)),
               !.pc = "movePiece:begin", !.mpCtx = ctx]

\* the statement after a goToStart call, in each caller
AfterGoToStart(pr, failed) ==
    CASE pr.gsCtx = "defer" ->
           [pr EXCEPT !.pc = "unlock", !.homeErr = failed,
                      !.res = DeferredResult(pr.res, failed)]
      [] pr.gsCtx = "move" ->
           IF failed THEN Return(pr, Err("goToStart"))
           ELSE [pr EXCEPT !.pc = "move:Capture"]
      [] pr.gsCtx = "makeAMove" ->
           IF failed THEN Return(pr, Err("can't go home"))
           ELSE [pr EXCEPT !.pc = "makeAMove:getGame"]
      [] pr.gsCtx = "resetBoard" ->
           IF failed THEN Return(pr, Err("goToStart"))
           ELSE [pr EXCEPT !.pc = "resetBoard:Capture"]
      [] pr.gsCtx = "centerCamera" ->
           IF failed THEN Return(pr, Ok)
           ELSE [pr EXCEPT !.pc = "centerCamera:Capture"]

\* the gripper opens off the board: a piece it holds is set down there
Buried(places, at, piece) ==
    IF piece # 0 /\ at.at = "grave" THEN places \cup {at} ELSE places

\* the gripper opens: a piece it holds falls where the gripper is
Dropped(board, at, piece) ==
    IF piece # 0 /\ at.at \in {"center", "blend"}
    THEN [board EXCEPT ![at.i] = piece] ELSE board

\* a client calls DoCommand with the next command; callers are alike, so the
\* first idle one makes the call
DoCommand(p) ==
    /\ P(p).pc = "idle"
    /\ \A q \in Procs : q < p => P(q).pc # "idle"
    /\ pending # <<>>
    /\ pending' = Tail(pending)
    /\ proc' = [proc EXCEPT ![p] = [IdleProc EXCEPT !.pc = "lock", !.cmd = Head(pending)]]
    /\ ret' = [ret EXCEPT ![p] = NoRet]
    /\ UNCHANGED <<lock, file, skillAdjust, phys, held, arm, act, finder, cam, solve, yard, cloud, sample, vis>>

Lock(p) ==
    /\ P(p).pc = "lock"
    /\ CanLock(lock)
    /\ lock' = p
    /\ proc' = [proc EXCEPT ![p].pc = "decode"]
    /\ UNCHANGED <<ret, file, skillAdjust, phys, held, arm, act, pending, finder, cam, solve, yard, cloud, sample, vis>>

\* lines 233-299: the first applicable field decides
Dispatch(pr, c) ==
    IF ~c.decodes THEN Return(pr, Err("decode"))
    ELSE IF c.To # Empty /\ c.From # Empty
    THEN IF c.N > 0 THEN GoToStart([pr EXCEPT !.fn = "move", !.x = 0], "move")
         ELSE Return([pr EXCEPT !.fn = "move"], Ok)
    ELSE IF c.Go > 0
    THEN [pr EXCEPT !.fn = "checkPositionForMoves",
                    !.pc = "checkPositionForMoves:getGame"]
    ELSE IF c.Reset THEN [pr EXCEPT !.fn = "resetBoard", !.pc = "resetBoard:getGame"]
    ELSE IF c.Wipe THEN [pr EXCEPT !.fn = "wipe", !.pc = "wipe"]
    ELSE IF c.Center THEN GoToStart([pr EXCEPT !.fn = "centerCamera"], "centerCamera")
    ELSE IF c.Skill > 0 THEN Return([pr EXCEPT !.fn = "skill"], Ok)
    ELSE Return(pr, Err("bad cmd"))

SetsSkill(c) ==
    /\ c.decodes
    /\ ~(c.To # Empty /\ c.From # Empty)
    /\ ~(c.Go > 0) /\ ~c.Reset /\ ~c.Wipe /\ ~c.Center
    /\ c.Skill > 0

Decode(p) ==
    /\ P(p).pc = "decode"
    /\ LET c == P(p).cmd
       IN  /\ proc' = [proc EXCEPT ![p] = Dispatch([P(p) EXCEPT !.fileAtCall = file], c)]
           /\ skillAdjust' = IF SetsSkill(c) THEN c.Skill ELSE skillAdjust
    /\ UNCHANGED <<lock, ret, file, phys, held, arm, act, pending, finder, cam, solve, yard, cloud, sample, vis>>

Unlock(p) ==
    /\ P(p).pc = "unlock"
    /\ lock' = 0
    /\ ret' = [ret EXCEPT ![p] =
                 [valid |-> TRUE, res |-> P(p).res, body |-> P(p).body,
                  homeErr |-> P(p).homeErr, last |-> act, cmd |-> P(p).cmd]]
    /\ proc' = [proc EXCEPT ![p] = IdleProc]
    /\ UNCHANGED <<file, skillAdjust, phys, held, arm, act, pending, finder, cam, solve, yard, cloud, sample, vis>>

(***************************************************************************)
(* goToStart: the pose switch, the gripper, the pose read back.            *)
(***************************************************************************)
GoToStartSetPosition(p) ==
    /\ P(p).pc = "goToStart:SetPosition"
    /\ \E ok \in BOOLEAN :
         /\ act' = Action(p, "SetPosition", P(p).gsCtx, StartLoc, 0)
         /\ arm' = IF ok THEN StartLoc ELSE arm
         /\ proc' = [proc EXCEPT ![p] =
                       IF ok THEN [@ EXCEPT !.pc = "goToStart:Open"]
                       ELSE AfterGoToStart(@, TRUE)]
    /\ UNCHANGED <<lock, ret, file, skillAdjust, phys, held, pending, finder, cam, solve, yard, cloud, sample, vis>>

GoToStartOpen(p) ==
    /\ P(p).pc = "goToStart:Open"
    /\ \E ok \in BOOLEAN :
         /\ act' = Action(p, "Open", P(p).gsCtx, arm, 0)
         /\ phys' = IF ok THEN Dropped(phys, arm, held) ELSE phys
         /\ yard' = IF ok THEN Buried(yard, arm, held) ELSE yard
         /\ held' = IF ok THEN 0 ELSE held
         /\ proc' = [proc EXCEPT ![p] =
                       IF ok THEN [@ EXCEPT !.pc = "goToStart:GetPose"]
                       ELSE AfterGoToStart(@, TRUE)]
    /\ UNCHANGED <<lock, ret, file, skillAdjust, arm, pending, finder, cam, solve, cloud, sample, vis>>

GoToStartGetPose(p) ==
    /\ P(p).pc = "goToStart:GetPose"
    /\ \E ok \in BOOLEAN :
         /\ act' = Action(p, "GetPose", P(p).gsCtx, arm, 0)
         /\ proc' = [proc EXCEPT ![p] = AfterGoToStart(@, ~ok)]
    /\ UNCHANGED <<lock, ret, file, skillAdjust, phys, held, arm, pending, finder, cam, solve, yard, cloud, sample, vis>>

(***************************************************************************)
(* movePiece, getCenterFor, graveyardPosition, moveGripper, myGrab.        *)
(***************************************************************************)
\* Go's / and % truncate towards zero
GoDiv(a, b) == IF a >= 0 THEN a \div b ELSE -((-a) \div b)
GoMod(a, b) == a - b * GoDiv(a, b)

Found(loc, zs) == [r |-> "ok", loc |-> loc, zs |-> zs]
NotFound(why) == [r |-> "err", loc |-> NoLoc, zs |-> {}, why |-> why]
NilDeref == [r |-> "panic", loc |-> NoLoc, zs |-> {}]

\* a graveyard of one column
graveyardPositionOneColumn(data, pos) ==
    LET f == 8 - GoMod(pos, 8)
    IN  IF f \notin 1..8 THEN NotFound("why no object")
        ELSE Found(Loc("grave", f, 1), {GraveyardZ})

\* lines 332-345; the objects of a capture are the 64 squares, so "a<f>" has
\* an object exactly when f is a rank
graveyardPosition(data, pos) ==
    LET f == 8 - GoMod(pos, 8)
        ex == 1 + GoDiv(pos, 8)
    IN  IF f \notin 1..8 THEN NotFound("why no object")
        ELSE Found(Loc("grave", f, ex), {GraveyardZ})

\* a getCenterFor whose "-" is always the first graveyard slot
getCenterForFirstSlot(data, pos, theState, tracked) ==
    CASE pos.k = "hold" ->
           IF tracked THEN graveyardPosition(data, 0) ELSE NilDeref
      [] pos.k = "slot" -> graveyardPosition(data, pos.i)
      [] pos.k = "badslot" -> NotFound("bad special graveyard")
      [] pos.k = "sq" ->
           IF data.color[pos.i] = 0
           THEN Found(Loc("center", pos.i, 0), {BoardZ})
           ELSE Found(Loc("blend", pos.i, 0), TopHeights)
      [] OTHER -> NotFound("can't find object")

\* lines 347-383; theState is nil when tracked is FALSE, and the receiver s is
\* never nil, so "-" reads len(theState.graveyard) in every call
getCenterFor(data, pos, theState, tracked) ==
    CASE pos.k = "hold" ->
           IF tracked THEN graveyardPosition(data, Len(theState.graveyard))
           ELSE NilDeref
      [] pos.k = "slot" -> graveyardPosition(data, pos.i)
      [] pos.k = "badslot" -> NotFound("bad special graveyard")
      [] pos.k = "sq" ->
           IF data.color[pos.i] = 0
           THEN Found(Loc("center", pos.i, 0), {BoardZ})
           ELSE Found(Loc("blend", pos.i, 0), TopHeights)
      [] OTHER -> NotFound("can't find object")

\* a myGrab that believes the gripper
myGrabTrusting(got, p) == got

\* lines 719-745
myGrab(got, p) == IF p < GripMin /\ got THEN FALSE ELSE got

\* a retry that gives up one step later
GivesUpLate(nextZ) == nextZ < FloorZ - RetryStep

\* lines 447-448: the retry gives up when the next height is under the floor
GivesUp(nextZ) == nextZ < FloorZ

\* readings of get_gripper
GripReadings == {GripMin - 10, GripMin, GripMin + 10}

\* the piece standing where the gripper is (a graveyard slot is not tracked)
PieceAt(board, at) == IF at.at \in {"center", "blend"} THEN board[at.i] ELSE 0

\* the rook of a castle: lines 662-689
CastleRook(m) ==
    CASE m.s1 = 4 /\ m.s2 = 6 -> <<SqPos(7), SqPos(5)>>
      [] m.s1 = 4 /\ m.s2 = 0 -> <<SqPos(0), SqPos(2)>>
      [] m.s1 = 60 /\ m.s2 = 62 -> <<SqPos(63), SqPos(61)>>
      [] m.s1 = 60 /\ m.s2 = 56 -> <<SqPos(56), SqPos(58)>>
      [] OTHER -> <<Empty, Empty>>

IsCastle(m) == m.tag \in {"KingSideCastle", "QueenSideCastle"}

\* a makeAMove without the en-passant test
MainMoveAny(pr) == CallMovePiece(pr, SqPos(pr.m.s1), SqPos(pr.m.s2), TRUE, "makeAMove")

\* lines 697-701: en passant is refused, any other move is executed
MainMove(pr) ==
    IF pr.m.tag = "EnPassant" THEN Return(pr, Err("can't handle enpassant"))
    ELSE CallMovePiece(pr, SqPos(pr.m.s1), SqPos(pr.m.s2), TRUE, "makeAMove")

\* a makeAMove that goes on to game.Move and saveGame whatever movePiece
\* returned
AfterMovePieceUnchecked(pr, res) ==
    CASE pr.mpCtx = "move" ->
           IF res.kind # "ok" THEN Return(pr, res)
           ELSE IF pr.x + 1 < pr.cmd.N
           THEN GoToStart([pr EXCEPT !.x = @ + 1, !.moved = FALSE], "move")
           ELSE Return(pr, Ok)
      [] pr.mpCtx = "castle" -> MainMove(pr)
      [] pr.mpCtx = "makeAMove" ->
           [pr EXCEPT !.st.game = Apply(@, pr.m), !.pc = "makeAMove:saveGame"]
      [] pr.mpCtx = "resetBoard" ->
           IF res.kind # "ok" THEN Return(pr, res)
           ELSE [pr EXCEPT !.x = @ + 1, !.pc = "resetBoard:next"]

\* the statement after a movePiece call, in each caller
AfterMovePiece(pr, res) ==
    CASE pr.mpCtx = "move" ->
           IF res.kind # "ok" THEN Return(pr, res)
           ELSE IF pr.x + 1 < pr.cmd.N
           THEN GoToStart([pr EXCEPT !.x = @ + 1, !.moved = FALSE], "move")
           ELSE Return(pr, Ok)
      [] pr.mpCtx = "castle" ->
           IF res.kind # "ok" THEN Return(pr, res) ELSE MainMove(pr)
      [] pr.mpCtx = "makeAMove" ->
           IF res.kind # "ok" THEN Return(pr, res)
           ELSE [pr EXCEPT !.st.game = Apply(@, pr.m), !.pc = "makeAMove:saveGame"]
      [] pr.mpCtx = "resetBoard" ->
           IF res.kind # "ok" THEN Return(pr, res)
           ELSE [pr EXCEPT !.x = @ + 1, !.pc = "resetBoard:next"]

RECURSIVE MovePieceReturns(_, _)
\* movePiece returns res: to the movePiece that called it to clear the
\* destination (lines 401-410), or to the caller of the outermost movePiece
MovePieceReturns(pr, res) ==
    LET rest == SubSeq(pr.fr, 1, Len(pr.fr) - 1)
        back == [pr EXCEPT !.fr = rest]
    IN  IF rest = <<>> THEN AfterMovePiece([back EXCEPT !.mpRes = res], res)
        ELSE IF res.kind # "ok"
        THEN MovePieceReturns(back, Err("can't move piece out of the way"))
        ELSE [back EXCEPT
                !.st = IF Top(back).tracked
                       THEN [@ EXCEPT !.graveyard =
                               Append(@, pr.st.game.board[pr.m.s2])]
                       ELSE @,
                !.pc = "movePiece:setupGripper"]

\* a movePiece that clears its destination by a call whose own destination is
\* a square (the source of the move) instead of "-"
MovePieceBeginSwap(p) ==
    /\ P(p).pc = "movePiece:begin"
    /\ LET f == Top(P(p))
       IN  proc' = [proc EXCEPT ![p] =
             IF f.to.k \in {"hold", "slot", "badslot"}
             THEN [@ EXCEPT !.pc = "movePiece:setupGripper"]
             ELSE IF f.to.k # "sq"
             THEN MovePieceReturns(@, Err("can't find object"))
             ELSE IF @.all.color[f.to.i] # 0
             THEN [@ EXCEPT !.fr = Append(@, Frame(f.to, f.from, f.tracked))]
             ELSE [@ EXCEPT !.pc = "movePiece:setupGripper"]]
    /\ UNCHANGED <<lock, ret, file, skillAdjust, phys, held, arm, act, pending, finder, cam, solve, yard, cloud, sample, vis>>

\* lines 390-412: is the destination a square with a piece on it?
MovePieceBegin(p) ==
    /\ P(p).pc = "movePiece:begin"
    /\ LET f == Top(P(p))
       IN  proc' = [proc EXCEPT ![p] =
             IF f.to.k \in {"hold", "slot", "badslot"}
             THEN [@ EXCEPT !.pc = "movePiece:setupGripper"]
             ELSE IF f.to.k # "sq"
             THEN MovePieceReturns(@, Err("can't find object"))
             ELSE IF @.all.color[f.to.i] # 0
             THEN [@ EXCEPT !.fr = Append(@, Frame(f.to, Hold, f.tracked))]
             ELSE [@ EXCEPT !.pc = "movePiece:setupGripper"]]
    /\ UNCHANGED <<lock, ret, file, skillAdjust, phys, held, arm, act, pending, finder, cam, solve, yard, cloud, sample, vis>>

\* a step of movePiece fails: movePiece returns the error
Fails(pr, why) == MovePieceReturns([pr EXCEPT !.failed = TRUE], Err(why))

\* lines 417-426: getCenterFor(from), then setupGripper
MovePieceSetupGripper(p) ==
    /\ P(p).pc = "movePiece:setupGripper"
    /\ LET f == Top(P(p))
           c == getCenterFor(P(p).all, f.from, P(p).st, f.tracked)
       IN  IF c.r = "ok"
           THEN \E ok \in BOOLEAN, z \in c.zs :
                  /\ act' = Action(p, "move_gripper", P(p).pc, arm, 0)
                  /\ phys' = IF ok THEN Dropped(phys, arm, held) ELSE phys
                  /\ yard' = IF ok THEN Buried(yard, arm, held) ELSE yard
                  /\ held' = IF ok THEN 0 ELSE held
                  /\ proc' = [proc EXCEPT ![p] =
                       IF ok
                       THEN [SetTop(@, [f EXCEPT !.c = c.loc, !.useZ = z, !.z0 = z])
                               EXCEPT !.pc = "movePiece:travelFrom", !.moved = TRUE]
                       ELSE Fails([@ EXCEPT !.moved = TRUE], "move_gripper")]
           ELSE /\ proc' = [proc EXCEPT ![p] =
                       IF c.r = "panic" THEN Return(@, Panic("nil theState"))
                       ELSE Fails(@, c.why)]
                /\ UNCHANGED <<act, phys, held, yard>>
    /\ UNCHANGED <<lock, ret, file, skillAdjust, arm, pending, finder, cam, solve, cloud, sample, vis>>

\* a moveGripper that makes no call to the motion service
MoveGripperSkipped(p, at, loc, z, next) ==
    /\ P(p).pc = at
    /\ proc' = [proc EXCEPT ![p] = [@ EXCEPT !.pc = next, !.moved = TRUE]]
    /\ UNCHANGED <<lock, ret, file, skillAdjust, phys, held, arm, act, pending, finder, cam, solve, yard, cloud, sample, vis>>

\* moveGripper(p): one motion.Move to loc at height z, then pc next; gripped
\* records that a grab succeeded and the descent at the destination (line
\* 478) has not been commanded yet
MoveGripper(p, at, loc, z, next) ==
    /\ P(p).pc = at
    /\ \E ok \in BOOLEAN :
         /\ act' = Action(p, "Move", at, loc, z)
         /\ arm' = IF ok THEN loc ELSE arm
         /\ proc' = [proc EXCEPT ![p] =
               LET carrying == IF at = "movePiece:descendTo" THEN FALSE ELSE @.gripped
               IN  IF ok THEN [@ EXCEPT !.pc = next, !.moved = TRUE,
                                        !.gripped = carrying,
                                        !.target = Action(p, "Move", at, loc, z)]
                   ELSE Fails([@ EXCEPT !.moved = TRUE, !.gripped = carrying,
                                        !.target = Action(p, "Move", at, loc, z)],
                              "can't move")]
    /\ UNCHANGED <<lock, ret, file, skillAdjust, phys, held, pending, finder, cam, solve, yard, cloud, sample, vis>>

\* line 428
MovePieceTravelFrom(p) ==
    /\ P(p).fr # <<>>
    /\ MoveGripper(p, "movePiece:travelFrom", Top(P(p)).c, safeZ, "movePiece:descend")

\* line 434
MovePieceDescend(p) ==
    /\ P(p).fr # <<>>
    /\ MoveGripper(p, "movePiece:descend", Top(P(p)).c, Top(P(p)).useZ, "movePiece:Grab")

\* line 720: gripper.Grab
MovePieceGrab(p) ==
    /\ P(p).pc = "movePiece:Grab"
    /\ \E ok \in BOOLEAN, got \in BOOLEAN :
         /\ act' = Action(p, "Grab", P(p).pc, arm, 0)
         /\ proc' = [proc EXCEPT ![p] =
               IF ok
               THEN [SetTop(@, [Top(@) EXCEPT !.got = got, !.tries = @ + 1])
                       EXCEPT !.pc = "movePiece:get_gripper", !.moved = TRUE]
               ELSE Fails([@ EXCEPT !.moved = TRUE], "Grab")]
    /\ UNCHANGED <<lock, ret, file, skillAdjust, phys, held, arm, pending, finder, cam, solve, yard, cloud, sample, vis>>

\* lines 727-745 and 443-450: the read back, and the retry decision; the
\* call is recorded with the position read, -1 when the query failed or gave
\* no number
MovePieceGetGripper(p) ==
    /\ P(p).pc = "movePiece:get_gripper"
    /\ LET f == Top(P(p))
       IN  \E out \in {<<FALSE, FALSE, 0>>, <<TRUE, FALSE, 0>>}
                      \cup {<<TRUE, TRUE, r>> : r \in GripReadings} :
             LET ok == out[1]
                 isFloat == out[2]
                 pos == out[3]
                 grabbed == ok /\ isFloat /\ myGrab(f.got, pos)
                 piece == PieceAt(phys, arm)
             IN  /\ act' = Action(p, "get_gripper", P(p).pc, arm,
                                  IF ok /\ isFloat THEN pos ELSE -1)
                 /\ held' = IF grabbed /\ held = 0 THEN piece ELSE held
                 /\ phys' = IF grabbed /\ held = 0 /\ piece # 0
                            THEN [phys EXCEPT ![arm.i] = 0] ELSE phys
                 /\ proc' = [proc EXCEPT ![p] =
                       IF ~ok THEN Fails(@, "get_gripper")
                       ELSE IF ~isFloat THEN Fails(@, "Why is get_gripper weird")
                       ELSE IF grabbed
                       THEN [@ EXCEPT !.pc = "movePiece:liftFrom", !.gripped = TRUE]
                       ELSE IF GivesUp(f.useZ - RetryStep)
                       THEN Fails(@, "couldn't grab, and scared to go lower")
                       ELSE [SetTop(@, [f EXCEPT !.useZ = @ - RetryStep])
                               EXCEPT !.pc = "movePiece:retry"]]
    /\ UNCHANGED <<lock, ret, file, skillAdjust, arm, pending, finder, cam, solve, yard, cloud, sample, vis>>

\* a retry that leaves the gripper as it is
MovePieceRetryNoOpen(p) ==
    /\ P(p).pc = "movePiece:retry"
    /\ proc' = [proc EXCEPT ![p] = [@ EXCEPT !.pc = "movePiece:descend"]]
    /\ UNCHANGED <<lock, ret, file, skillAdjust, phys, held, arm, act, pending, finder, cam, solve, yard, cloud, sample, vis>>

\* line 454: setupGripper before the next attempt
MovePieceRetry(p) ==
    /\ P(p).pc = "movePiece:retry"
    /\ \E ok \in BOOLEAN :
         /\ act' = Action(p, "move_gripper", P(p).pc, arm, 0)
         /\ phys' = IF ok THEN Dropped(phys, arm, held) ELSE phys
         /\ yard' = IF ok THEN Buried(yard, arm, held) ELSE yard
         /\ held' = IF ok THEN 0 ELSE held
         /\ proc' = [proc EXCEPT ![p] =
               IF ok THEN [@ EXCEPT !.pc = "movePiece:descend"]
               ELSE Fails(@, "move_gripper")]
    /\ UNCHANGED <<lock, ret, file, skillAdjust, arm, pending, finder, cam, solve, cloud, sample, vis>>

\* a movePiece that goes on to the destination without the lift at from
MovePieceLiftFromSkipped(p) ==
    /\ P(p).fr # <<>>
    /\ MoveGripperSkipped(p, "movePiece:liftFrom", Top(P(p)).c, safeZ, "movePiece:travelTo")

\* line 461
MovePieceLiftFrom(p) ==
    /\ P(p).fr # <<>>
    /\ MoveGripper(p, "movePiece:liftFrom", Top(P(p)).c, safeZ, "movePiece:travelTo")

\* lines 468-476: getCenterFor(to), then the travel above it
MovePieceTravelTo(p) ==
    /\ P(p).pc = "movePiece:travelTo"
    /\ LET f == Top(P(p))
           c == getCenterFor(P(p).all, f.to, P(p).st, f.tracked)
       IN  IF c.r = "ok"
           THEN \E ok \in BOOLEAN :
                  /\ act' = Action(p, "Move", P(p).pc, c.loc, safeZ)
                  /\ arm' = IF ok THEN c.loc ELSE arm
                  /\ proc' = [proc EXCEPT ![p] =
                       IF ok
                       THEN [SetTop(@, [f EXCEPT !.c = c.loc])
                               EXCEPT !.pc = "movePiece:descendTo",
                                      !.target = Action(p, "Move", P(p).pc, c.loc, safeZ)]
                       ELSE Fails([@ EXCEPT !.target =
                                      Action(p, "Move", P(p).pc, c.loc, safeZ)],
                                  "can't move")]
           ELSE /\ proc' = [proc EXCEPT ![p] =
                       IF c.r = "panic" THEN Return(@, Panic("nil theState"))
                       ELSE Fails(@, c.why)]
                /\ UNCHANGED <<act, arm>>
    /\ UNCHANGED <<lock, ret, file, skillAdjust, phys, held, pending, finder, cam, solve, yard, cloud, sample, vis>>

\* a descent at the destination to the height of the destination's target
MovePieceDescendToTargetZ(p) ==
    /\ P(p).fr # <<>>
    /\ \E z \in getCenterFor(P(p).all, Top(P(p)).to, P(p).st, Top(P(p)).tracked).zs :
         MoveGripper(p, "movePiece:descendTo", Top(P(p)).c, z, "movePiece:release")

\* line 478: the descent at the destination, to the height useZ of the last
\* descent at the source
MovePieceDescendTo(p) ==
    /\ P(p).fr # <<>>
    /\ MoveGripper(p, "movePiece:descendTo", Top(P(p)).c, Top(P(p)).useZ, "movePiece:release")

\* line 483: setupGripper opens the gripper over the destination
MovePieceRelease(p) ==
    /\ P(p).pc = "movePiece:release"
    /\ \E ok \in BOOLEAN :
         /\ act' = Action(p, "move_gripper", P(p).pc, arm, 0)
         /\ phys' = IF ok THEN Dropped(phys, arm, held) ELSE phys
         /\ yard' = IF ok THEN Buried(yard, arm, held) ELSE yard
         /\ held' = IF ok THEN 0 ELSE held
         /\ proc' = [proc EXCEPT ![p] =
               IF ok THEN [@ EXCEPT !.pc = "movePiece:liftTo"]
               ELSE Fails(@, "move_gripper")]
    /\ UNCHANGED <<lock, ret, file, skillAdjust, arm, pending, finder, cam, solve, cloud, sample, vis>>

\* line 488, and the return of nil
MovePieceLiftTo(p) ==
    /\ P(p).pc = "movePiece:liftTo"
    /\ \E ok \in BOOLEAN :
         /\ act' = Action(p, "Move", P(p).pc, Top(P(p)).c, safeZ)
         /\ arm' = IF ok THEN Top(P(p)).c ELSE arm
         /\ proc' = [proc EXCEPT ![p] =
               LET moved == [@ EXCEPT !.target =
                               Action(p, "Move", P(p).pc, Top(P(p)).c, safeZ)]
               IN  IF ok THEN MovePieceReturns(moved, Ok)
                   ELSE Fails(moved, "can't move")]
    /\ UNCHANGED <<lock, ret, file, skillAdjust, phys, held, pending, finder, cam, solve, yard, cloud, sample, vis>>

(***************************************************************************)
(* The state file: readState, saveGame, wipe.                              *)
(***************************************************************************)
\* a readState for which a missing file is an error like any other
readStateStrict(f) == IF ~f.exists \/ f.torn THEN NoState ELSE State(f.fen, f.graveyard)

\* lines 566-589: no file is a new game with an empty graveyard; a file that
\* does not parse is an error
readState(f) ==
    IF ~f.exists THEN State(NewGame, <<>>)
    ELSE IF f.torn THEN NoState
    ELSE State(f.fen, f.graveyard)

\* lines 591-604
\* a saveGame that writes an empty graveyard
saveGameNoGraveyard(theState) == SavedState(theState.game, <<>>)

saveGame(theState) == SavedState(theState.game, theState.graveyard)

\* getGame, at pc "<fn>:getGame"; a read error other than "no file" is returned
GetGame(p, at, next) ==
    /\ P(p).pc = at
    /\ \E ok \in BOOLEAN :
         /\ ok \/ file.exists
         /\ act' = Action(p, "ReadFile", P(p).fn, NoLoc, 0)
         /\ proc' = [proc EXCEPT ![p] =
               IF ~ok THEN Return(@, Err("error reading fen"))
               ELSE IF ~readState(file).ok THEN Return(@, Err("cannot unmarshal json"))
               ELSE [@ EXCEPT !.st = readState(file), !.pc = next]]
    /\ UNCHANGED <<lock, ret, file, skillAdjust, phys, held, arm, pending, finder, cam, solve, yard, cloud, sample, vis>>

\* line 788-790: os.Remove fails when there is no file
Wipe(p) ==
    /\ P(p).pc = "wipe"
    /\ \E ok \in BOOLEAN :
         /\ ok => file.exists
         /\ act' = Action(p, "Remove", P(p).fn, NoLoc, 0)
         /\ file' = IF ok THEN NoFile ELSE file
         /\ proc' = [proc EXCEPT ![p] =
               Return(@, IF ok THEN Ok ELSE Err("remove"))]
    /\ UNCHANGED <<lock, ret, skillAdjust, phys, held, arm, pending, finder, cam, solve, yard, cloud, sample, vis>>

(***************************************************************************)
(* checkPositionForMoves.                                                  *)
(***************************************************************************)
\* lines 806-827: the loop over the squares in order gives the differing
\* squares in ascending order, from as the last of them the camera sees
\* empty and to as the last of them the camera sees occupied
Scan(board, color) ==
    LET D == {sq \in Squares : PieceColor(board[sq]) # color[sq]}
        Last(S) == IF S = {} THEN -1 ELSE CHOOSE sq \in S : \A t \in S : t <= sq
    IN  [differnces |-> [i \in 1..Cardinality(D) |->
                            CHOOSE sq \in D : Cardinality({t \in D : t < sq}) = i - 1],
         from |-> Last({sq \in D : color[sq] = 0}),
         to |-> Last({sq \in D : color[sq] > 0})]

\* a comparison of the lengths only
squaresSameLen(a, b) == Len(a) = Len(b)

\* lines 936-955
squaresSame(a, b) ==
    /\ Len(a) = Len(b)
    /\ \A i \in 1..Len(a) : \E j \in 1..Len(b) : a[i] = b[j]

\* a differ that knows no castle
CastleOfNone(differnces) == <<-1, -1>>

\* lines 833-856: the four castles
CastleOf(differnces) ==
    CASE squaresSame(differnces, <<4, 5, 6, 7>>) -> <<4, 6>>
      [] squaresSame(differnces, <<4, 0, 2, 3>>) -> <<4, 2>>
      [] squaresSame(differnces, <<60, 61, 62, 63>>) -> <<60, 62>>
      [] squaresSame(differnces, <<60, 56, 58, 59>>) -> <<60, 58>>
      [] OTHER -> <<-1, -1>>

\* a differ that takes no difference for a bad number of differences
DifferStrict(board, color) ==
    LET s == Scan(board, color)
        n == Len(s.differnces)
        castle == IF n = 4 THEN CastleOf(s.differnces) ELSE <<-1, -1>>
    IN  IF castle # <<-1, -1>>
        THEN [r |-> "find", from |-> castle[1], to |-> castle[2], n |-> n]
        ELSE IF n # 2 THEN [r |-> "bad", from |-> s.from, to |-> s.to, n |-> n]
        ELSE [r |-> "find", from |-> s.from, to |-> s.to, n |-> n]

\* lines 829-860: what the differences say
\*   "none": no difference; "bad": a bad number of differences;
\*   "find": look for a valid move from -> to
Differ(board, color) ==
    LET s == Scan(board, color)
        n == Len(s.differnces)
        castle == IF n = 4 THEN CastleOf(s.differnces) ELSE <<-1, -1>>
    IN  IF n = 0 THEN [r |-> "none", from |-> -1, to |-> -1, n |-> n]
        ELSE IF castle # <<-1, -1>>
        THEN [r |-> "find", from |-> castle[1], to |-> castle[2], n |-> n]
        ELSE IF n # 2 THEN [r |-> "bad", from |-> s.from, to |-> s.to, n |-> n]
        ELSE [r |-> "find", from |-> s.from, to |-> s.to, n |-> n]

\* a lookup that takes the difference seen for a move, valid or not
MatchingUnchecked(game, from, to) ==
    IF from \in Squares /\ to \in Squares THEN {Mv(from, to, 0, "None")} ELSE {}

\* a lookup by the from square only
MatchingFrom(game, from, to) == { m \in ValidMoves(game) : m.s1 = from }

\* lines 862-878: the valid moves with that from and to
Matching(game, from, to) == { m \in ValidMoves(game) : m.s1 = from /\ m.s2 = to }

checkPositionForMovesGetGame(p) ==
    GetGame(p, "checkPositionForMoves:getGame", "checkPositionForMoves:Capture")

\* lines 801-880: the capture and what follows, up to the save
checkPositionForMovesCapture(p) ==
    /\ P(p).pc = "checkPositionForMoves:Capture"
    /\ act' = Action(p, "Capture", P(p).fn, NoLoc, 0)
    /\ \E ok \in BOOLEAN :
         IF ~ok
         THEN proc' = [proc EXCEPT ![p] = Return(@, Err("capture"))]
         ELSE LET d == Differ(P(p).st.game.board, phys)
                  found == Matching(P(p).st.game, d.from, d.to)
                  seen == [P(p) EXCEPT !.all = Snap(phys)]
              IN  CASE d.r = "none" ->
                         proc' = [proc EXCEPT ![p] = StartMakeAMove([seen EXCEPT !.x = 0])]
                    [] d.r = "bad" ->
                         proc' = [proc EXCEPT ![p] =
                                    Return(seen, Err("bad number of differnces"))]
                    [] d.r = "find" /\ found = {} ->
                         proc' = [proc EXCEPT ![p] = Return(seen, Err("no valid moves"))]
                    [] OTHER ->
                         \E m \in found :
                            proc' = [proc EXCEPT ![p] =
                               [seen EXCEPT !.st.game = Apply(@, m), !.m = m,
                                            !.pc = "checkPositionForMoves:saveGame"]]
    /\ UNCHANGED <<lock, ret, file, skillAdjust, phys, held, arm, pending, finder, cam, solve, yard, cloud, sample, vis>>

\* saveGame at pc "<fn>:saveGame", then `then`
SaveGame(p, at, then) ==
    /\ P(p).pc = at
    /\ \E ok \in BOOLEAN :
         /\ act' = Action(p, "WriteFile", P(p).fn, NoLoc, 0)
         /\ file' \in IF ok THEN {saveGame(P(p).st)} ELSE {file, TornFile}
         /\ proc' = [proc EXCEPT ![p] =
               IF ok THEN then ELSE Return(@, Err("write"))]
    /\ UNCHANGED <<lock, ret, skillAdjust, phys, held, arm, pending, finder, cam, solve, yard, cloud, sample, vis>>

\* lines 871-876, then lines 272-274: the first makeAMove of the go command
checkPositionForMovesSaveGame(p) ==
    SaveGame(p, "checkPositionForMoves:saveGame",
             EnterMakeAMove([P(p) EXCEPT !.x = 0], saveGame(P(p).st)))

(***************************************************************************)
(* makeAMove.                                                              *)
(***************************************************************************)
makeAMoveGetGame(p) == GetGame(p, "makeAMove:getGame", "makeAMove:pickMove")

\* lines 606-636: the engine's best move is a valid move of the position
makeAMovePickMove(p) ==
    /\ P(p).pc = "makeAMove:pickMove"
    /\ act' = Action(p, "engine", P(p).fn, NoLoc, 0)
    /\ LET moves == ValidMoves(P(p).st.game)
       IN  \/ proc' = [proc EXCEPT ![p] = Return(@, Err("engine"))]
           \/ \E m \in moves :
                proc' = [proc EXCEPT ![p] = [@ EXCEPT !.m = m, !.pc = "makeAMove:Capture"]]
    /\ UNCHANGED <<lock, ret, file, skillAdjust, phys, held, arm, pending, finder, cam, solve, yard, cloud, sample, vis>>

\* lines 657-701: the capture, the rook of a castle, the en-passant test
makeAMoveCapture(p) ==
    /\ P(p).pc = "makeAMove:Capture"
    /\ act' = Action(p, "Capture", P(p).fn, NoLoc, 0)
    /\ \E ok \in BOOLEAN :
         proc' = [proc EXCEPT ![p] =
            IF ~ok THEN Return([@ EXCEPT !.failed = TRUE], Err("capture"))
            ELSE LET seen == [@ EXCEPT !.all = Snap(phys)]
                     rook == CastleRook(@.m)
                 IN  IF IsCastle(@.m)
                     THEN IF rook[1] = Empty THEN Return(seen, Err("bad castle?"))
                          ELSE CallMovePiece(seen, rook[1], rook[2], FALSE, "castle")
                     ELSE MainMove(seen)]
    /\ UNCHANGED <<lock, ret, file, skillAdjust, phys, held, arm, pending, finder, cam, solve, yard, cloud, sample, vis>>

\* a go command that returns after its first move
makeAMoveSaveGameOnce(p) ==
    SaveGame(p, "makeAMove:saveGame",
             Return([P(p) EXCEPT !.committed = TRUE], Res("ok", "", P(p).m)))

\* lines 711-716, then the loop of lines 273-279
makeAMoveSaveGame(p) ==
    SaveGame(p, "makeAMove:saveGame",
             IF P(p).x + 1 < P(p).cmd.Go
             THEN EnterMakeAMove([P(p) EXCEPT !.x = @ + 1], saveGame(P(p).st))
             ELSE Return([P(p) EXCEPT !.committed = TRUE], Res("ok", "", P(p).m)))

(***************************************************************************)
(* The move command, resetBoard and centerCamera.                          *)
(***************************************************************************)
\* a move command that moves from -> to on every round
moveCaptureOneWay(p) ==
    /\ P(p).pc = "move:Capture"
    /\ act' = Action(p, "Capture", P(p).fn, NoLoc, 0)
    /\ \E ok \in BOOLEAN :
         proc' = [proc EXCEPT ![p] =
            IF ~ok THEN Return(@, Err("capture"))
            ELSE CallMovePiece([@ EXCEPT !.all = Snap(phys)],
                               @.cmd.From, @.cmd.To, FALSE, "move")]
    /\ UNCHANGED <<lock, ret, file, skillAdjust, phys, held, arm, pending, finder, cam, solve, yard, cloud, sample, vis>>

\* a move command that goes on to movePiece when the capture failed
moveCaptureBlind(p) ==
    /\ P(p).pc = "move:Capture"
    /\ act' = Action(p, "Capture", P(p).fn, NoLoc, 0)
    /\ \E ok \in BOOLEAN :
         proc' = [proc EXCEPT ![p] =
            CallMovePiece([@ EXCEPT !.all = Snap(phys),
                                    !.body = IF ok THEN @ ELSE Err("capture")],
                          @.cmd.From, @.cmd.To, FALSE, "move")]
    /\ UNCHANGED <<lock, ret, file, skillAdjust, phys, held, arm, pending, finder, cam, solve, yard, cloud, sample, vis>>

\* lines 248-257: from and to swap on odd rounds
moveCapture(p) ==
    /\ P(p).pc = "move:Capture"
    /\ act' = Action(p, "Capture", P(p).fn, NoLoc, 0)
    /\ \E ok \in BOOLEAN :
         proc' = [proc EXCEPT ![p] =
            IF ~ok THEN Return(@, Err("capture"))
            ELSE LET odd == @.x % 2 = 1
                     from == IF odd THEN @.cmd.To ELSE @.cmd.From
                     to == IF odd THEN @.cmd.From ELSE @.cmd.To
                 IN  CallMovePiece([@ EXCEPT !.all = Snap(phys)], from, to, FALSE, "move")]
    /\ UNCHANGED <<lock, ret, file, skillAdjust, phys, held, arm, pending, finder, cam, solve, yard, cloud, sample, vis>>

resetBoardGetGame(p) == GetGame(p, "resetBoard:getGame", "resetBoard:next")

\* the reset moves nextResetMove hands back (a pawn to e2, from e4 or from
\* the first graveyard slot)
ResetMoves == { <<SqPos(28), SqPos(12)>>, <<Slot(0), SqPos(12)>> }

\* lines 755-766: nextResetMove says the next move, that it is done, or fails
resetBoardNext(p) ==
    /\ P(p).pc = "resetBoard:next"
    /\ \/ proc' = [proc EXCEPT ![p] = [@ EXCEPT !.pc = "wipe"]]
       \/ proc' = [proc EXCEPT ![p] = Return(@, Err("nextResetMove"))]
       \/ /\ P(p).x < MaxReset
          /\ \E ft \in ResetMoves :
               proc' = [proc EXCEPT ![p] =
                  GoToStart([@ EXCEPT !.cmd.From = ft[1], !.cmd.To = ft[2],
                                      !.moved = FALSE], "resetBoard")]
    /\ UNCHANGED <<lock, ret, file, skillAdjust, phys, held, arm, act, pending, finder, cam, solve, yard, cloud, sample, vis>>

\* lines 769-777
resetBoardCapture(p) ==
    /\ P(p).pc = "resetBoard:Capture"
    /\ act' = Action(p, "Capture", P(p).fn, NoLoc, 0)
    /\ \E ok \in BOOLEAN :
         proc' = [proc EXCEPT ![p] =
            IF ~ok THEN Return(@, Err("capture"))
            ELSE CallMovePiece([@ EXCEPT !.all = Snap(phys)],
                               @.cmd.From, @.cmd.To, FALSE, "resetBoard")]
    /\ UNCHANGED <<lock, ret, file, skillAdjust, phys, held, arm, pending, finder, cam, solve, yard, cloud, sample, vis>>

\* lines 894-910: d1, e1, d8 and e8 have objects; "finish me"
centerCameraCapture(p) ==
    /\ P(p).pc = "centerCamera:Capture"
    /\ act' = Action(p, "Capture", P(p).fn, NoLoc, 0)
    /\ \E ok \in BOOLEAN :
         proc' = [proc EXCEPT ![p] =
            Return(@, IF ok THEN Err("finish me") ELSE Err("capture"))]
    /\ UNCHANGED <<lock, ret, file, skillAdjust, phys, held, arm, pending, finder, cam, solve, yard, cloud, sample, vis>>

(***************************************************************************)
(* The service: callers of DoCommand.                                      *)
(***************************************************************************)
Step(p) ==
    \/ DoCommand(p) \/ Lock(p) \/ Decode(p) \/ Unlock(p)
    \/ GoToStartSetPosition(p) \/ GoToStartOpen(p) \/ GoToStartGetPose(p)
    \/ MovePieceBegin(p) \/ MovePieceSetupGripper(p) \/ MovePieceTravelFrom(p)
    \/ MovePieceDescend(p) \/ MovePieceGrab(p) \/ MovePieceGetGripper(p)
    \/ MovePieceRetry(p) \/ MovePieceLiftFrom(p) \/ MovePieceTravelTo(p)
    \/ MovePieceDescendTo(p) \/ MovePieceRelease(p) \/ MovePieceLiftTo(p)
    \/ checkPositionForMovesGetGame(p) \/ checkPositionForMovesCapture(p)
    \/ checkPositionForMovesSaveGame(p)
    \/ makeAMoveGetGame(p) \/ makeAMovePickMove(p) \/ makeAMoveCapture(p)
    \/ makeAMoveSaveGame(p)
    \/ moveCapture(p) \/ resetBoardGetGame(p) \/ resetBoardNext(p)
    \/ resetBoardCapture(p) \/ centerCameraCapture(p) \/ Wipe(p)

Next == \E p \in Procs : Step(p)

Spec == Init /\ [][Next]_vars

(***************************************************************************)
(* checkPositionForMoves alone: a go command has been decoded, and the     *)
(* board differs from the state file on any of the touched squares.        *)
(***************************************************************************)
InitDiffer ==
    /\ lock = 1
    /\ finder = NoEstimate
    /\ cam = NoCall
    /\ solve = NoSolve
    /\ yard = {}
    /\ cloud = NoCloud
    /\ sample = NoSample
    /\ vis = NoCapture
    /\ ret = [p \in Procs |-> NoRet]
    /\ skillAdjust = 50
    /\ held = 0
    /\ arm = StartLoc
    /\ act = NoAction
    /\ pending = <<>>
    /\ file \in StateFiles
    /\ phys \in BoardsNear(file, Touched(file))
    /\ proc = [p \in Procs |->
                 IF p = 1
                 THEN Dispatch([IdleProc EXCEPT !.cmd = GoCmd(1), !.fileAtCall = file],
                               GoCmd(1))
                 ELSE IdleProc]

NextDiffer ==
    \E p \in Procs :
        \/ checkPositionForMovesGetGame(p)
        \/ checkPositionForMovesCapture(p)
        \/ checkPositionForMovesSaveGame(p)

SpecDiffer == InitDiffer /\ [][NextDiffer]_vars
(***************************************************************************)
(* Move commands that name graveyard slots: a piece is taken from slot k   *)
(* to a square, or from a square to slot k, on the start position.         *)
(***************************************************************************)
SlotCommands ==
    { MoveCmd(Slot(k), SqPos(28), 1) : k \in 0..MaxSlot }
    \cup { MoveCmd(SqPos(12), Slot(k), 1) : k \in 0..MaxSlot }

InitSlots ==
    /\ InitService
    /\ finder = NoEstimate
    /\ cam = NoCall
    /\ solve = NoSolve
    /\ yard = {}
    /\ cloud = NoCloud
    /\ sample = NoSample
    /\ vis = NoCapture
    /\ file = NoFile
    /\ phys = Seen(NoFile)
    /\ \E c \in SlotCommands : pending = <<c>>

NextSlots ==
    \E p \in Procs :
        \/ DoCommand(p) \/ Lock(p) \/ Decode(p) \/ Unlock(p)
        \/ GoToStartSetPosition(p) \/ GoToStartOpen(p) \/ GoToStartGetPose(p)
        \/ moveCapture(p)
        \/ MovePieceBegin(p) \/ MovePieceSetupGripper(p) \/ MovePieceTravelFrom(p)
        \/ MovePieceDescend(p) \/ MovePieceGrab(p) \/ MovePieceGetGripper(p)
        \/ MovePieceRetry(p) \/ MovePieceLiftFrom(p) \/ MovePieceTravelTo(p)
        \/ MovePieceDescendTo(p) \/ MovePieceRelease(p) \/ MovePieceLiftTo(p)

SpecSlots == InitSlots /\ [][NextSlots]_vars

(***************************************************************************)
(* A move command whose context is cancelled by the client while it runs.  *)
(* DoCommand hands ctx to every call it makes (lines 221, 227, 428-488)    *)
(* and never reads ctx.Err() or ctx.Done(): what a call does with the      *)
(* cancelled context is up to the collaborator, so each call may fail or   *)
(* be carried out, as before the cancellation.                             *)
(***************************************************************************)
Cancel(p) ==
    /\ P(p).pc # "idle"
    /\ ~P(p).cancelled
    /\ proc' = [proc EXCEPT ![p].cancelled = TRUE]
    /\ UNCHANGED <<lock, ret, file, skillAdjust, phys, held, arm, act, pending, finder, cam, solve, yard, cloud, sample, vis>>

CancelCommands == { MoveCmd(SqPos(12), SqPos(28), 1), MoveCmd(SqPos(12), Slot(0), 1) }

InitCancel ==
    /\ InitService
    /\ finder = NoEstimate
    /\ cam = NoCall
    /\ solve = NoSolve
    /\ yard = {}
    /\ cloud = NoCloud
    /\ sample = NoSample
    /\ vis = NoCapture
    /\ file = NoFile
    /\ phys = Seen(NoFile)
    /\ \E c \in CancelCommands : pending = <<c>>

NextCancel == NextSlots \/ \E p \in Procs : Cancel(p)

SpecCancel == InitCancel /\ [][NextCancel]_vars

(***************************************************************************)
(* Go commands one after the other on a game with a capture and a          *)
(* recapture: white pawn e5 takes f6, the black king on g7 takes back.     *)
(***************************************************************************)
RecaptureGame ==
    [board |-> BoardOf((4 :> 1) @@ (36 :> 6) @@ (45 :> 12) @@ (54 :> 7)),
     turn |-> 1, castle |-> {}, ep |-> -1]

InitYard ==
    /\ InitService
    /\ finder = NoEstimate
    /\ cam = NoCall
    /\ solve = NoSolve
    /\ yard = {}
    /\ cloud = NoCloud
    /\ sample = NoSample
    /\ vis = NoCapture
    /\ file = SavedState(RecaptureGame, <<>>)
    /\ phys = Seen(file)
    /\ pending = <<GoCmd(1), GoCmd(1)>>

NextYard ==
    \E p \in Procs :
        \/ DoCommand(p) \/ Lock(p) \/ Decode(p) \/ Unlock(p)
        \/ GoToStartSetPosition(p) \/ GoToStartOpen(p) \/ GoToStartGetPose(p)
        \/ MovePieceBegin(p) \/ MovePieceSetupGripper(p) \/ MovePieceTravelFrom(p)
        \/ MovePieceDescend(p) \/ MovePieceGrab(p) \/ MovePieceGetGripper(p)
        \/ MovePieceRetry(p) \/ MovePieceLiftFrom(p) \/ MovePieceTravelTo(p)
        \/ MovePieceDescendTo(p) \/ MovePieceRelease(p) \/ MovePieceLiftTo(p)
        \/ checkPositionForMovesGetGame(p) \/ checkPositionForMovesCapture(p)
        \/ checkPositionForMovesSaveGame(p)
        \/ makeAMoveGetGame(p) \/ makeAMovePickMove(p) \/ makeAMoveCapture(p)
        \/ makeAMoveSaveGame(p)

SpecYard == InitYard /\ [][NextYard]_vars

(***************************************************************************)
(* The piece finder: estimatePieceColor over the points of one square.     *)
(***************************************************************************)
\* part_000 line 33
minPieceSize == 20
\* part_000 line 192: the count up to which the square is blank
blankCount == 10
\* part_000 line 203
whiteBrightness == 128

\* the height of the tallest point of the clouds
TopZ == 50
\* the points of one kind in a cloud
MaxPoints == 12

White == <<255, 255, 255>>
Shades == {<<0, 0, 0>>, <<127, 128, 128>>, <<128, 128, 128>>, <<129, 128, 128>>, White}

Repeat(pt, n) == [i \in 1..n |-> pt]

\* a cloud: n coloured points of one shade and k white ones under the height
\* band, u points without colour under it, b coloured points on its edge, and
\* the top point
Cloud(n, shade, k, u, b, top) ==
    Repeat(Point(TopZ - minPieceSize - 1, TRUE, shade), n)
    \o Repeat(Point(TopZ - minPieceSize - 1, TRUE, White), k)
    \o Repeat(Point(TopZ - minPieceSize - 1, FALSE, <<0, 0, 0>>), u)
    \o Repeat(Point(TopZ - minPieceSize, TRUE, White), b)
    \o <<Point(TopZ, top, White)>>

Clouds ==
    { Cloud(n, shade, k, u, b, top) :
        n \in 0..MaxPoints, shade \in Shades, k \in {0, 1},
        u \in {0, MaxPoints}, b \in {0, MaxPoints}, top \in BOOLEAN }

\* pc.MetaData().MaxZ
MaxZ(pc) == CHOOSE z \in {pc[i].z : i \in 1..Len(pc)} : \A i \in 1..Len(pc) : pc[i].z <= z

\* a test that takes the points without colour too
QualifiesAny(p, minZ) == p.z < minZ

\* line 182: p.Z < minZ && d != nil && d.HasColor()
Qualifies(p, minZ) == p.z < minZ /\ p.colored

\* a classification that is blank only under blankCount points
ClassifyUnder(count, totalR, totalG, totalB) ==
    IF count < blankCount THEN 0
    ELSE IF totalR + totalG + totalB > 3 * whiteBrightness * count THEN 1
    ELSE 2

\* lines 192-206: (totalR/count + totalG/count + totalB/count) / 3 > 128 is
\* totalR + totalG + totalB > 3 * 128 * count
Classify(count, totalR, totalG, totalB) ==
    IF count <= blankCount THEN 0
    ELSE IF totalR + totalG + totalB > 3 * whiteBrightness * count THEN 1
    ELSE 2

\* lines 181-190: the callback of pc.Iterate on the next point
estimatePieceColorIterate ==
    /\ finder.color = -1
    /\ finder.i <= Len(finder.pc)
    /\ LET p == finder.pc[finder.i]
           minZ == MaxZ(finder.pc) - minPieceSize
       IN  finder' =
             IF Qualifies(p, minZ)
             THEN [finder EXCEPT !.i = @ + 1, !.totalR = @ + p.r, !.totalG = @ + p.g,
                                 !.totalB = @ + p.b, !.count = @ + 1]
             ELSE [finder EXCEPT !.i = @ + 1]
    /\ UNCHANGED <<lock, proc, ret, file, skillAdjust, phys, held, arm, act, pending, cam, solve, yard, cloud, sample, vis>>

\* lines 192-206: the value returned
estimatePieceColorReturn ==
    /\ finder.color = -1
    /\ finder.pc # <<>>
    /\ finder.i > Len(finder.pc)
    /\ finder' = [finder EXCEPT !.color =
                    Classify(finder.count, finder.totalR, finder.totalG, finder.totalB)]
    /\ UNCHANGED <<lock, proc, ret, file, skillAdjust, phys, held, arm, act, pending, cam, solve, yard, cloud, sample, vis>>

InitFinder ==
    /\ InitService
    /\ cam = NoCall
    /\ solve = NoSolve
    /\ yard = {}
    /\ cloud = NoCloud
    /\ sample = NoSample
    /\ vis = NoCapture
    /\ file = NoFile
    /\ phys = Seen(NoFile)
    /\ pending = <<>>
    /\ finder \in { Estimate(pc) : pc \in Clouds }

NextFinder == estimatePieceColorIterate \/ estimatePieceColorReturn

SpecFinder == InitFinder /\ [][NextFinder]_vars

(***************************************************************************)
(* The board rectifier: getTransformedImage and NextPointCloud of          *)
(* BoardFinderCam, over what the source camera and the corner finder       *)
(* return.                                                                 *)
(***************************************************************************)
\* the corners the finder may return
MaxCorners == 5
\* the images the source camera may return
MaxImages == 2

Errs(text) == {NoError, NewError(text)}

Sources ==
    { Source(pcErr, imagesErr, nImgs, decodeErr, findErr, nCorners, propsErr, intrinsics) :
        pcErr \in Errs("source: no pointcloud"),
        imagesErr \in Errs("source: no image"),
        nImgs \in 0..MaxImages,
        decodeErr \in Errs("decode"),
        findErr \in Errs("not found"),
        nCorners \in 0..MaxCorners,
        propsErr \in Errs("properties"),
        intrinsics \in BOOLEAN }

\* the call returns err and no value
Failed(c, err) == [c EXCEPT !.pc = "done", !.err = err, !.value = "none"]
\* the call returns value and a nil error
Returned(c, value) == [c EXCEPT !.pc = "done", !.err = NoError, !.value = value]

\* a corner test that only refuses too few corners
TooFewCorners(n) == n < 4

\* lines 161 and 328: len(corners) != 4
BadCorners(n) == n # 4

\* the other variables of a step of the rectifier
RectifierOnly ==
    UNCHANGED <<lock, proc, ret, file, skillAdjust, phys, held, arm, act, pending, finder, solve, yard, cloud, sample, vis>>

\* lines 135-138: the point cloud of the source camera
NextPointCloudSource ==
    /\ cam.pc = "NextPointCloud"
    /\ cam' = IF cam.src.pcErr # NoError
              THEN Failed(cam, WrapError("failed to get pointcloud from source", cam.src.pcErr))
              ELSE [cam EXCEPT !.pc = "Images"]
    /\ RectifierOnly

\* lines 141-148 and 308-315: the images of the source camera
SourceImages ==
    /\ cam.pc = "Images"
    /\ cam' = IF cam.src.imagesErr # NoError
              THEN Failed(cam, IF cam.path = "pointcloud"
                               THEN WrapError("failed to get images from source",
                                              cam.src.imagesErr)
                               ELSE cam.src.imagesErr)
              ELSE IF cam.src.nImgs = 0
              THEN Failed(cam, NewError("no images from source camera"))
              ELSE [cam EXCEPT !.pc = "Image"]
    /\ RectifierOnly

\* lines 150-153 and 317-320: imgs[0].Image
DecodeImage ==
    /\ cam.pc = "Image"
    /\ cam' = IF cam.src.decodeErr # NoError
              THEN Failed(cam, IF cam.path = "pointcloud"
                               THEN WrapError("failed to decode image", cam.src.decodeErr)
                               ELSE cam.src.decodeErr)
              ELSE [cam EXCEPT !.pc = "findBoard"]
    /\ RectifierOnly

\* lines 155-163 and 322-334: the corners, and on the image path the
\* perspective transform
FindBoard ==
    /\ cam.pc = "findBoard"
    /\ cam' = IF cam.src.findErr # NoError
              THEN Failed(cam, WrapError("failed to find board", cam.src.findErr))
              ELSE IF BadCorners(cam.src.nCorners)
              THEN Failed(cam, NewError("expected 4 corners"))
              ELSE IF cam.path = "image" THEN Returned(cam, "image")
              ELSE [cam EXCEPT !.pc = "Properties"]
    /\ RectifierOnly

\* lines 165-181: the intrinsic parameters, then the filtered point cloud
SourceProperties ==
    /\ cam.pc = "Properties"
    /\ cam' = IF cam.src.propsErr # NoError
              THEN Failed(cam, WrapError("failed to get camera properties", cam.src.propsErr))
              ELSE IF ~cam.src.intrinsics
              THEN Failed(cam, NewError("camera does not have intrinsic parameters"))
              ELSE Returned(cam, "pointcloud")
    /\ RectifierOnly

InitRectifier ==
    /\ InitService
    /\ solve = NoSolve
    /\ yard = {}
    /\ cloud = NoCloud
    /\ sample = NoSample
    /\ vis = NoCapture
    /\ finder = NoEstimate
    /\ file = NoFile
    /\ phys = Seen(NoFile)
    /\ pending = <<>>
    /\ cam \in { Call(path, src) : path \in {"image", "pointcloud"}, src \in Sources }

NextRectifier ==
    \/ NextPointCloudSource \/ SourceImages \/ DecodeImage \/ FindBoard
    \/ SourceProperties

SpecRectifier == InitRectifier /\ [][NextRectifier]_vars

(***************************************************************************)
(* The perspective matrices: computePerspectiveMatrix, solveLinearSystem   *)
(* and applyPerspective. The float64 values of the code are modelled by    *)
(* exact fractions <<numerator, denominator>> in lowest terms; on the      *)
(* corners used here, small integers, every value is such a fraction.      *)
(***************************************************************************)
\* the output sizes
MaxN == 2

RECURSIVE Gcd(_, _)
Gcd(a, b) == IF b = 0 THEN a ELSE Gcd(b, a % b)
Abs(a) == IF a < 0 THEN -a ELSE a

\* the fraction n / d, d # 0, in lowest terms with a positive denominator
Frac(n, d) ==
    LET g == Gcd(Abs(n), Abs(d))
        sgn == IF d < 0 THEN -1 ELSE 1
    IN  <<sgn * (n \div g), sgn * (d \div g)>>
Num(k) == <<k, 1>>
FSub(a, b) == Frac(a[1] * b[2] - b[1] * a[2], a[2] * b[2])
FAdd(a, b) == Frac(a[1] * b[2] + b[1] * a[2], a[2] * b[2])
FMul(a, b) == Frac(a[1] * b[1], a[2] * b[2])
FDiv(a, b) == Frac(a[1] * b[2], a[2] * b[1])
\* absFloat(a) > absFloat(b)
AbsGreater(a, b) == Abs(a[1]) * b[2] > Abs(b[1]) * a[2]
IsZero(a) == a[1] = 0

\* the corners of the output square: lines 351-356 and 205-210
DstPts(n) == << <<0, 0>>, <<n, 0>>, <<n, n>>, <<0, n>> >>

\* lines 399-407: the row of A and the entry of b for x' of one point pair
EquationX(s, d) ==
    << Num(s[1]), Num(s[2]), Num(1), Num(0), Num(0), Num(0),
       Num(-d[1] * s[1]), Num(-d[1] * s[2]), Num(d[1]) >>

\* lines 409-417: the row for y'
EquationY(s, d) ==
    << Num(0), Num(0), Num(0), Num(s[1]), Num(s[2]), Num(1),
       Num(-d[2] * s[1]), Num(-d[2] * s[2]), Num(d[2]) >>

\* lines 395-418: the 8 x 8 system of the four point pairs
BuildSystem(src, dst) ==
    [r \in 1..8 |->
       LET i == (r + 1) \div 2
       IN  IF r % 2 = 1 THEN EquationX(src[i], dst[i]) ELSE EquationY(src[i], dst[i])]

\* lines 430-436: the first row from col on with the greatest |A[row][col]|
MaxRow(A, col) ==
    CHOOSE r \in col..8 :
        /\ \A q \in col..8 : ~AbsGreater(A[q][col], A[r][col])
        /\ \A q \in col..(r - 1) : AbsGreater(A[r][col], A[q][col])

\* lines 438-453: the swap, and the elimination of col under the pivot row;
\* with a pivot of 0 nothing is eliminated
EliminateColumn(A, col) ==
    LET maxRow == MaxRow(A, col)
        S == [r \in 1..8 |-> IF r = col THEN A[maxRow]
                              ELSE IF r = maxRow THEN A[col] ELSE A[r]]
    IN  IF IsZero(S[col][col]) THEN S
        ELSE [r \in 1..8 |->
                IF r <= col THEN S[r]
                ELSE LET factor == FDiv(S[r][col], S[col][col])
                     IN  [k \in 1..9 |->
                            IF k < col THEN S[r][k]
                            ELSE FSub(S[r][k], FMul(factor, S[col][k]))]]

RECURSIVE DotFrom(_, _, _)
\* lines 459-461: the sum of A[i][j] * x[j] over the j after i (x holds the
\* values of i + 1 .. 8, in this order)
DotFrom(row, x, j) ==
    IF j > Len(x) THEN Num(0)
    ELSE FAdd(FMul(row[8 - Len(x) + j], x[j]), DotFrom(row, x, j + 1))

\* lines 457-465: x[i], from the values x of i + 1 .. 8; without the division
\* when A[i][i] is 0
BackSubstitute(A, i, x) ==
    LET v == FSub(A[i][9], DotFrom(A[i], x, 1))
    IN  IF IsZero(A[i][i]) THEN v ELSE FDiv(v, A[i][i])

\* lines 478-486: a weight of 0 is taken as 1
applyPerspective(m, x, y) ==
    LET w0 == FAdd(FAdd(FMul(m[7], x), FMul(m[8], y)), m[9])
        w == IF IsZero(w0) THEN Num(1) ELSE w0
    IN  << FDiv(FAdd(FAdd(FMul(m[1], x), FMul(m[2], y)), m[3]), w),
           FDiv(FAdd(FAdd(FMul(m[4], x), FMul(m[5], y)), m[6]), w) >>

\* the other variables of a step on the matrices
SolveOnly ==
    UNCHANGED <<lock, proc, ret, file, skillAdjust, phys, held, arm, act, pending, finder, cam, yard, cloud, sample, vis>>

\* lines 386-418: computePerspectiveMatrix builds A and b
computePerspectiveMatrixBuild ==
    /\ solve.phase = "build"
    /\ solve' = [solve EXCEPT
                   !.A = IF solve.which = "toSrc"
                         THEN BuildSystem(DstPts(solve.n), solve.src)
                         ELSE BuildSystem(solve.src, DstPts(solve.n)),
                   !.phase = "eliminate", !.col = 1, !.x = <<>>]
    /\ SolveOnly

\* lines 429-453: one round of the forward elimination
solveLinearSystemEliminate ==
    /\ solve.phase = "eliminate"
    /\ LET A2 == EliminateColumn(solve.A, solve.col)
       IN  solve' = [solve EXCEPT
                       !.A = A2,
                       !.zeroPivot = @ \/ IsZero(A2[solve.col][solve.col]),
                       !.col = IF solve.col = 8 THEN 8 ELSE @ + 1,
                       !.phase = IF solve.col = 8 THEN "back" ELSE @]
    /\ SolveOnly

\* lines 456-467 and 420-423: one round of the back substitution; after the
\* last one the matrix is h[0..7] and 1
solveLinearSystemBack ==
    /\ solve.phase = "back"
    /\ LET x2 == <<BackSubstitute(solve.A, solve.col, solve.x)>> \o solve.x
           m == x2 \o <<Num(1)>>
       IN  solve' =
             IF solve.col > 1 THEN [solve EXCEPT !.x = x2, !.col = @ - 1]
             ELSE IF solve.which = "toSrc"
             THEN [solve EXCEPT !.toSrc = m, !.which = "toDst", !.phase = "build",
                                !.A = <<>>, !.x = <<>>, !.col = 0]
             ELSE [solve EXCEPT !.toDst = m, !.phase = "done",
                                !.A = <<>>, !.x = <<>>, !.col = 0]
    /\ SolveOnly

\* the corners the finder gives: top-left, top-right, bottom-right,
\* bottom-left
CornerSets ==
    { <<tl, tr, br, bl>> :
        tl \in { <<0, 0>>, <<1, 0>>, <<1, 1>> },
        tr \in { <<4, 0>>, <<5, 1>>, <<3, 1>> },
        br \in { <<5, 3>>, <<4, 2>>, <<5, 4>> },
        bl \in { <<0, 3>>, <<1, 4>>, <<0, 2>> } }

InitSolve ==
    /\ InitService
    /\ finder = NoEstimate
    /\ cam = NoCall
    /\ file = NoFile
    /\ phys = Seen(NoFile)
    /\ pending = <<>>
    /\ solve \in { Solve(src, n) : src \in CornerSets, n \in 1..MaxN }
    /\ yard = {}
    /\ cloud = NoCloud
    /\ sample = NoSample
    /\ vis = NoCapture

NextSolve ==
    \/ computePerspectiveMatrixBuild \/ solveLinearSystemEliminate
    \/ solveLinearSystemBack

SpecSolve == InitSolve /\ [][NextSolve]_vars

(***************************************************************************)
(* filterAndTransformPointCloud and pointInPolygon, on clouds of a few     *)
(* points with integer coordinates; pixel coordinates are exact fractions. *)
(***************************************************************************)
\* the points of an input cloud
MaxCloud == 2

\* a < b, for fractions
FLess(a, b) == a[1] * b[2] < b[1] * a[2]

\* the intrinsic parameters of the source camera
Intrinsics == [Fx |-> 1, Fy |-> 1, Ppx |-> 0, Ppy |-> 0]

\* IntrinsicParams.PointToPixel for a point in front of the camera (z > 0)
PointToPixel(pt) ==
    << FAdd(Frac(pt.x * Intrinsics.Fx, pt.z), Num(Intrinsics.Ppx)),
       FAdd(Frac(pt.y * Intrinsics.Fy, pt.z), Num(Intrinsics.Ppy)) >>

\* line 265: the edge from polygon[j] to polygon[i] is crossed by the ray
\* from (x, y) to the right
Crosses(x, y, pi, pj) ==
    LET xi == Num(pi[1])
        yi == Num(pi[2])
        xj == Num(pj[1])
        yj == Num(pj[2])
    IN  /\ FLess(y, yi) # FLess(y, yj)
        /\ FLess(x, FAdd(FDiv(FMul(FSub(xj, xi), FSub(y, yi)), FSub(yj, yi)), xi))

\* lines 256-272: ray casting; inside flips once per crossed edge
pointInPolygon(x, y, polygon) ==
    Cardinality({i \in 1..Len(polygon) :
                   Crosses(x, y, polygon[i],
                           polygon[IF i = 1 THEN Len(polygon) ELSE i - 1])}) % 2 = 1

\* lines 233-243: the point that projects to the transformed pixel, at the
\* depth of pt and with its data
Transformed(matrix, n, pt) ==
    LET img == PointToPixel(pt)
        new == applyPerspective(matrix, img[1], img[2])
        half == Frac(n, 2)
    IN  [x |-> FDiv(FMul(FSub(new[1], half), Num(pt.z)), Num(Intrinsics.Fx)),
         y |-> FDiv(FMul(FSub(new[2], half), Num(pt.z)), Num(Intrinsics.Fy)),
         z |-> Num(pt.z), d |-> pt.d]

\* PointCloud.Set(p, d): one entry per position, the last one set
SetPoint(pc, pt) ==
    {q \in pc : <<q.x, q.y, q.z>> # <<pt.x, pt.y, pt.z>>} \cup {pt}

\* the other variables of a step of the filter
FilterOnly ==
    UNCHANGED <<lock, proc, ret, file, skillAdjust, phys, held, arm, act, pending, finder, cam, solve, yard, sample, vis>>

\* the points a source cloud may hold: position, and data (nil or a colour)
CloudPoints ==
    { [x |-> x, y |-> y, z |-> z, d |-> d] :
        x \in {1, 2, 6}, y \in {1}, z \in {1, 2}, d \in {"nil", "rgb"} }

RECURSIVE CloudsUpTo(_)
\* the clouds of at most k points: one entry per position
CloudsUpTo(k) ==
    IF k = 0 THEN {{}}
    ELSE LET less == CloudsUpTo(k - 1)
         IN  less \cup { pc \cup {pt} :
                           pc \in less,
                           pt \in CloudPoints }

\* the source clouds
PointClouds ==
    { pc \in CloudsUpTo(MaxCloud) :
        \A a, b \in pc : <<a.x, a.y, a.z>> = <<b.x, b.y, b.z>> => a = b }

\* lines 188-222: the call, with the cloud pc of the source camera, the
\* corners and the output size; computePerspectiveMatrix(srcPts, dstPts) of
\* line 213 is the matrix "toDst" the steps on solve have computed
filterAndTransformPointCloudMatrix ==
    /\ cloud.phase = "idle"
    /\ solve.phase = "done"
    /\ \E pc \in PointClouds :
         cloud' = [Filter(pc, solve.src, solve.n) EXCEPT
                     !.matrix = solve.toDst, !.phase = "iterate"]
    /\ FilterOnly

\* lines 224-250: the callback of pc.Iterate on one point, in any order
filterAndTransformPointCloudIterate ==
    /\ cloud.phase = "iterate"
    /\ \E pt \in cloud.todo :
         LET img == PointToPixel(pt)
         IN  cloud' = [cloud EXCEPT
                         !.todo = @ \ {pt},
                         !.filtered =
                            IF pointInPolygon(img[1], img[2], cloud.corners)
                            THEN SetPoint(@, Transformed(cloud.matrix, cloud.n, pt))
                            ELSE @]
    /\ FilterOnly

\* line 252
filterAndTransformPointCloudReturn ==
    /\ cloud.phase = "iterate"
    /\ cloud.todo = {}
    /\ cloud' = [cloud EXCEPT !.phase = "done"]
    /\ FilterOnly

\* a call of filterAndTransformPointCloud for each set of corners and each
\* output size
InitFilter ==
    /\ InitService
    /\ finder = NoEstimate
    /\ cam = NoCall
    /\ file = NoFile
    /\ phys = Seen(NoFile)
    /\ pending = <<>>
    /\ yard = {}
    /\ cloud = NoCloud
    /\ sample = NoSample
    /\ vis = NoCapture
    /\ solve \in { [Solve(src, n) EXCEPT !.which = "toDst"] :
                     src \in CornerSets, n \in 1..MaxN }

NextFilter ==
    \/ computePerspectiveMatrixBuild \/ solveLinearSystemEliminate
    \/ solveLinearSystemBack
    \/ filterAndTransformPointCloudMatrix \/ filterAndTransformPointCloudIterate
    \/ filterAndTransformPointCloudReturn

SpecFilter == InitFilter /\ [][NextFilter]_vars

(***************************************************************************)
(* bilinearSample: the four pixels read for a sample coordinate.           *)
(***************************************************************************)
\* the widths and heights of the source image
MaxSide == 2
\* how far outside the image a sample coordinate may lie
MaxOff == 3

\* Go's int(x) for a float64 within the range of int: towards zero
Trunc(f) == IF f[1] >= 0 THEN f[1] \div f[2] ELSE -((-f[1]) \div f[2])

\* lines 496-513: the lower clamp of x0 and the two upper clamps, in the
\* order of the code, for one axis
ClampLow(v0, min, max) ==
    LET low == IF v0 < min THEN min ELSE v0
    IN  IF low >= max THEN max - 1 ELSE low
ClampHigh(v1, min, max) == IF v1 >= max THEN max - 1 ELSE v1

\* lines 490-523: the coordinates of the four pixels handed to src.At
SampledPixels(x, y, bounds) ==
    LET x0 == ClampLow(Trunc(x), bounds.Min[1], bounds.Max[1])
        y0 == ClampLow(Trunc(y), bounds.Min[2], bounds.Max[2])
        x1 == ClampHigh(Trunc(x) + 1, bounds.Min[1], bounds.Max[1])
        y1 == ClampHigh(Trunc(y) + 1, bounds.Min[2], bounds.Max[2])
    IN  << <<x0, y0>>, <<x1, y0>>, <<x0, y1>>, <<x1, y1>> >>

\* lines 489-537: one call
bilinearSample ==
    /\ sample.phase = "sample"
    /\ sample' = [sample EXCEPT
                    !.read = SampledPixels(sample.x, sample.y, sample.bounds),
                    !.phase = "done"]
    /\ UNCHANGED <<lock, proc, ret, file, skillAdjust, phys, held, arm, act, pending, finder, cam, solve, yard, cloud, vis>>

\* sample coordinates in steps of one half, from MaxOff left of (above) the
\* image to MaxOff right of (below) the largest one
Halves == { Frac(k, 2) : k \in (-2 * MaxOff)..(2 * (MaxSide + MaxOff)) }

InitSample ==
    /\ InitService
    /\ finder = NoEstimate
    /\ cam = NoCall
    /\ solve = NoSolve
    /\ file = NoFile
    /\ phys = Seen(NoFile)
    /\ pending = <<>>
    /\ yard = {}
    /\ cloud = NoCloud
    /\ vis = NoCapture
    /\ sample \in { Sample(x, y, w, h) :
                      x \in Halves, y \in Halves, w \in 1..MaxSide, h \in 1..MaxSide }

NextSample == bilinearSample

SpecSample == InitSample /\ [][NextSample]_vars

(***************************************************************************)
(* The piece finder: BoardDebugImageHack and CaptureAllFromCamera. A name  *)
(* is <<file, rank>> with file 0..7 for 'a'..'h'; a label is a name, the   *)
(* colour code and whether "x-" stands before it. The cloud of the input   *)
(* camera is given by the sums estimatePieceColor takes over the points of *)
(* each cell of the 8 x 8 grid of the image.                               *)
(***************************************************************************)
\* fmt.Sprintf("%s-%d", name, color), and "x-" + label
Label(name, code, low) == [name |-> name, code |-> code, low |-> low]

\* image.Rect(x0, y0, x1, y1) with x0 <= x1 and y0 <= y1
Rect(x0, y0, x1, y1) == [minX |-> x0, minY |-> y0, maxX |-> x1, maxY |-> y1]

\* line 120
SquareSize(size) == GoDiv(size[2], 8)

\* a source rectangle that steps by half a square along a rank
SrcRectHalfStep(size, f, rank) ==
    LET squareSize == SquareSize(size)
        xOffset == GoDiv(size[1] - size[2], 2)
        xStartOffset == (7 - f) * GoDiv(squareSize, 2)
        yStartOffset == (rank - 1) * squareSize
    IN  Rect(xStartOffset + xOffset, yStartOffset,
             xStartOffset + xOffset + squareSize, yStartOffset + squareSize)

\* lines 118-134: the rectangle of the square in the source image
SrcRect(size, f, rank) ==
    LET squareSize == SquareSize(size)
        xOffset == GoDiv(size[1] - size[2], 2)
        xStartOffset == (7 - f) * squareSize
        yStartOffset == (rank - 1) * squareSize
    IN  Rect(xStartOffset + xOffset, yStartOffset,
             xStartOffset + xOffset + squareSize, yStartOffset + squareSize)

\* the sums over the points of a cell that qualify: n points of one shade
Summary(n, shade) == [count |-> n, totalR |-> n * shade, totalG |-> n * shade,
                      totalB |-> n * shade]

\* touch.PCLimitToImageBoxes(pc, {rect}): the points of the cells of the grid
\* that lie in rect; no point when rect is empty or off the grid
PCLimitToImageBoxes(view, size, rect) ==
    LET squareSize == SquareSize(size)
        xOffset == GoDiv(size[1] - size[2], 2)
        cells == { c \in (0..7) \X (0..7) :
                     /\ rect.minX <= xOffset + c[1] * squareSize
                     /\ xOffset + (c[1] + 1) * squareSize <= rect.maxX
                     /\ rect.minY <= c[2] * squareSize
                     /\ (c[2] + 1) * squareSize <= rect.maxY }
    IN  IF squareSize = 0 \/ Cardinality(cells) # 1 THEN Summary(0, 0)
        ELSE view[CHOOSE c \in cells : TRUE]

\* lines 176-207, on the sums
estimatePieceColor(sums) == Classify(sums.count, sums.totalR, sums.totalG, sums.totalB)

\* the other variables of a step of the piece finder's capture
CaptureOnly ==
    UNCHANGED <<lock, proc, ret, file, skillAdjust, phys, held, arm, act, pending, finder, cam, solve, yard, cloud, sample>>

\* lines 255-258
CaptureAllFromCameraImages ==
    /\ vis.pc = "Images"
    /\ vis' = IF vis.in.imagesErr # NoError THEN Failed(vis, vis.in.imagesErr)
              ELSE [vis EXCEPT !.pc = "NextPointCloud"]
    /\ CaptureOnly

\* lines 260-267
CaptureAllFromCameraNextPointCloud ==
    /\ vis.pc = "NextPointCloud"
    /\ vis' = IF vis.in.pcErr # NoError THEN Failed(vis, vis.in.pcErr)
              ELSE IF vis.in.nImgs = 0
              THEN Failed(vis, NewError("no images returned from input camera"))
              ELSE [vis EXCEPT !.pc = "Image"]
    /\ CaptureOnly

\* lines 269-272
CaptureAllFromCameraImage ==
    /\ vis.pc = "Image"
    /\ vis' = IF vis.in.decodeErr # NoError THEN Failed(vis, vis.in.decodeErr)
              ELSE [vis EXCEPT !.pc = "BoardDebugImageHack"]
    /\ CaptureOnly

\* lines 124-170: one round of the loops over rank and file, or the error of
\* PCLimitToImageBoxes
BoardDebugImageHackSquare ==
    /\ vis.pc = "BoardDebugImageHack"
    /\ LET k == Len(vis.squares)
           rank == (k \div 8) + 1
           f == k % 8
           srcRect == SrcRect(vis.in.size, f, rank)
           subPc == PCLimitToImageBoxes(vis.in.view, vis.in.size, srcRect)
       IN  \E ok \in BOOLEAN :
             vis' = IF ~ok THEN Failed(vis, NewError("PCLimitToImageBoxes"))
                    ELSE [vis EXCEPT
                            !.squares = Append(@, [rank |-> rank, file |-> f,
                                                   name |-> <<f, rank>>,
                                                   originalBounds |-> srcRect,
                                                   color |-> estimatePieceColor(subPc)]),
                            !.pc = IF k = 63 THEN "objects" ELSE @]
    /\ CaptureOnly

\* lines 289-318: one round of the loop over the squares, or the error of
\* TransformPointCloud or NewObjectWithLabel
CaptureAllFromCameraSquare ==
    /\ vis.pc = "objects"
    /\ Len(vis.objects) < Len(vis.squares)
    /\ LET sq == vis.squares[Len(vis.objects) + 1]
           label == Label(sq.name, sq.color, FALSE)
       IN  \E ok \in BOOLEAN :
             vis' = IF ~ok THEN Failed(vis, NewError("TransformPointCloud"))
                    ELSE [vis EXCEPT
                            !.objects = Append(@, [label |-> label]),
                            !.detections =
                               @ \o << [bounds |-> sq.originalBounds, label |-> label],
                                       [bounds |-> "low point",
                                        label |-> Label(sq.name, sq.color, TRUE)] >>]
    /\ CaptureOnly

\* line 320
CaptureAllFromCameraReturn ==
    /\ vis.pc = "objects"
    /\ Len(vis.objects) = Len(vis.squares)
    /\ vis' = Returned(vis, "capture")
    /\ CaptureOnly

\* the images: width and height
ImageSizes == { <<8, 8>>, <<24, 16>>, <<20, 17>>, <<8, 16>>, <<12, 7>> }

\* the clouds over a cell: no point, blankCount white points, and one more
\* than blankCount white or black points
CellClouds ==
    << Summary(0, 0), Summary(blankCount, 255), Summary(blankCount + 1, 255),
       Summary(blankCount + 1, 0) >>

\* the clouds over the grid, cell <<column, row>> from the top left
Views == { [c \in (0..7) \X (0..7) |-> CellClouds[((c[1] + 3 * c[2] + k) % 4) + 1]] :
             k \in 0..3 }

InitCapture ==
    /\ InitService
    /\ finder = NoEstimate
    /\ cam = NoCall
    /\ solve = NoSolve
    /\ file = NoFile
    /\ phys = Seen(NoFile)
    /\ pending = <<>>
    /\ yard = {}
    /\ cloud = NoCloud
    /\ sample = NoSample
    /\ vis \in { Capture([imagesErr |-> imagesErr, pcErr |-> pcErr, nImgs |-> nImgs,
                          decodeErr |-> decodeErr, size |-> size, view |-> view]) :
                   imagesErr \in Errs("input: no image"),
                   pcErr \in Errs("input: no pointcloud"),
                   nImgs \in 0..MaxImages,
                   decodeErr \in Errs("decode"),
                   size \in ImageSizes, view \in Views }

NextCapture ==
    \/ CaptureAllFromCameraImages \/ CaptureAllFromCameraNextPointCloud
    \/ CaptureAllFromCameraImage \/ BoardDebugImageHackSquare
    \/ CaptureAllFromCameraSquare \/ CaptureAllFromCameraReturn

SpecCapture == InitCapture /\ [][NextCapture]_vars

(***************************************************************************)
(* Properties.                                                             *)
(***************************************************************************)
\* a caller is inside DoCommand, past the lock
InBody(p) == P(p).pc \notin {"idle", "lock"}

\* C1: DoCommand executions are mutually exclusive: a caller past the lock
\* holds it and is alone there, up to and including its deferred goToStart
\* and the unlock; a second caller waits at the lock with no result, it is not
\* turned away
C1_MutualExclusion ==
    \A p \in Procs :
        /\ InBody(p) => lock = p /\ \A q \in Procs \ {p} : ~InBody(q)
        /\ P(p).pc = "lock" => ret[p] = NoRet
        /\ P(p).pc = "lock" /\ lock = 0 => ENABLED Lock(p)

\* a second call waits while the first is in its deferred goToStart
C1_SecondCallBlocked ==
    \E p \in Procs, q \in Procs :
        /\ P(p).pc = "goToStart:Open" /\ P(p).gsCtx = "defer"
        /\ P(q).pc = "lock"

\* C2: in makeAMove the move is applied and the state file written only after
\* movePiece (the capture relocation and the castle rook included) returned
\* nil; when a vision, motion or grab step of the move failed, the state file
\* is what it was when makeAMove began
C2_CommitAfterMove ==
    \A p \in Procs :
        /\ P(p).fn = "makeAMove" /\ P(p).failed => file = P(p).file0
        /\ P(p).fn = "makeAMove" /\ file # P(p).file0
             => P(p).committed \/ P(p).body.why = "write"
        /\ P(p).pc = "makeAMove:saveGame"
             => /\ ~P(p).failed
                /\ P(p).mpRes.kind = "ok"
                /\ P(p).fr = <<>>
                /\ file = P(p).file0
                /\ P(p).st.game = Apply(readState(file).game, P(p).m)

\* a move failed after the arm took a piece off its square; the file is as before
C2_FailedMidMove ==
    \E p \in Procs :
        /\ P(p).fn = "makeAMove" /\ P(p).failed /\ P(p).moved
        /\ P(p).pc = "unlock"
        /\ phys # Seen(file)

\* C3: every DoCommand call returns right after the goToStart of its deferred
\* function, whatever the command and the exit path; what it returns is what
\* the body returned, whether or not that goToStart failed
C3_GoToStartLast ==
    \A p \in Procs :
        /\ ret[p].valid =>
             /\ ret[p].last.p = p
             /\ ret[p].last.by = "defer"
             /\ ret[p].last.kind \in {"SetPosition", "Open", "GetPose"}
             /\ ret[p].res = ret[p].body
        /\ P(p).pc = "unlock" =>
             /\ act.p = p /\ act.by = "defer"
             /\ P(p).res = P(p).body

\* a call whose body succeeded and whose deferred goToStart failed has returned
C3_HomingFailedAfterSuccess ==
    \E p \in Procs :
        ret[p].valid /\ ret[p].homeErr /\ ret[p].res.kind = "ok"

\* the descents of a grab loop that starts at height z0
Attempts(z0) ==
    IF z0 - RetryStep < FloorZ THEN 1 ELSE (z0 - FloorZ) \div RetryStep + 1

\* C4: the grab loop of movePiece ends: it makes at most Attempts(z0) grabs
\* from a start height z0, it goes round again only when the next height
\* (the last one less 10) is 12 or more, and gives up otherwise
C4_RetryTerminates ==
    \A p \in Procs :
        /\ \A i \in 1..Len(P(p).fr) : P(p).fr[i].tries <= Attempts(P(p).fr[i].z0)
        /\ P(p).pc = "movePiece:retry" =>
             /\ Top(P(p)).useZ >= FloorZ
             /\ Top(P(p)).useZ = Top(P(p)).z0 - RetryStep * Top(P(p)).tries

\* a grab loop gave up, and DoCommand is returning its error
C4_GaveUp ==
    \E p \in Procs :
        /\ P(p).body.why = "couldn't grab, and scared to go lower"
        /\ P(p).gsCtx = "defer"

\* C5: every descent of movePiece at the source square, the first as well as
\* the retries, is to a height of 12 or more
C5_DescentAboveFloor ==
    act.kind = "Move" /\ act.by = "movePiece:descend" => act.z >= FloorZ

\* the squares on which the board seen differs from the position of file f
Mismatch(f, board) ==
    { sq \in Squares : PieceColor(readState(f).game.board[sq]) # board[sq] }

Footprints == { {4, 5, 6, 7}, {0, 2, 3, 4}, {60, 61, 62, 63}, {56, 58, 59, 60} }

KingMove(squares) ==
    CASE squares = {4, 5, 6, 7} -> <<4, 6>>
      [] squares = {0, 2, 3, 4} -> <<4, 2>>
      [] squares = {60, 61, 62, 63} -> <<60, 62>>
      [] squares = {56, 58, 59, 60} -> <<60, 58>>
      [] OTHER -> <<-1, -1>>

\* checkPositionForMoves has just returned nil to the go command
CheckPassed(p) ==
    /\ P(p).fn = "makeAMove" /\ P(p).x = 0
    /\ P(p).pc = "goToStart:SetPosition" /\ P(p).gsCtx = "makeAMove"

\* checkPositionForMoves has returned an error to the go command
CheckFailed(p) == P(p).fn = "checkPositionForMoves" /\ P(p).gsCtx = "defer"

\* checkPositionForMoves has decided
Settled(p) ==
    P(p).pc = "checkPositionForMoves:saveGame" \/ CheckPassed(p) \/ CheckFailed(p)

\* the errors of the file and of the camera
OutsideErrors == {"error reading fen", "cannot unmarshal json", "capture", "write"}

\* C6: with 1, 3, 5 or more mismatching squares, or 4 that are no castle
\* footprint, checkPositionForMoves returns an error, applies no move and
\* leaves the state file as it was
C6_BadCountIsError ==
    \A p \in Procs :
        LET f0 == P(p).fileAtCall
            M == Mismatch(f0, phys)
            n == Cardinality(M)
        IN  Settled(p) /\ readState(f0).ok /\ (n \in {1, 3} \/ n >= 5 \/ (n = 4 /\ M \notin Footprints))
            => /\ ~CheckPassed(p)
               /\ P(p).pc # "checkPositionForMoves:saveGame"
               /\ CheckFailed(p) => P(p).body.kind = "err" /\ file = f0

\* four mismatching squares that are no castle footprint were refused
C6_FourNoCastle ==
    \E p \in Procs :
        /\ CheckFailed(p)
        /\ P(p).body.why = "bad number of differnces"
        /\ Cardinality(Mismatch(P(p).fileAtCall, phys)) = 4

\* C7: with two mismatching squares, from is the one seen empty and to the
\* one seen occupied; when a valid move of the loaded position has that from
\* and to, that move is applied and the state saved; when none has, an error
\* is returned and the state file is as it was
C7_TwoMismatches ==
    \A p \in Procs :
        LET f0 == P(p).fileAtCall
            M == Mismatch(f0, phys)
            pos == readState(f0).game
            legal == { m \in ValidMoves(pos) :
                         m.s1 \in M /\ phys[m.s1] = 0 /\ m.s2 \in M /\ phys[m.s2] # 0 }
        IN  Settled(p) /\ readState(f0).ok /\ Cardinality(M) = 2
            => /\ P(p).pc = "checkPositionForMoves:saveGame" =>
                    /\ file = f0
                    /\ P(p).st.graveyard = readState(f0).graveyard
                    /\ \E m \in legal : P(p).st.game = Apply(pos, m)
               /\ CheckPassed(p) =>
                    \E m \in legal :
                        file = SavedState(Apply(pos, m), readState(f0).graveyard)
               /\ CheckFailed(p) /\ legal = {} => P(p).body.kind = "err" /\ file = f0
               /\ CheckFailed(p) /\ legal # {} => P(p).body.why \in OutsideErrors

\* a move of the person, seen as two mismatches, was applied and saved
C7_MoveFound ==
    \E p \in Procs :
        /\ CheckPassed(p)
        /\ Cardinality(Mismatch(P(p).fileAtCall, phys)) = 2
        /\ file # P(p).fileAtCall

\* C8: when the mismatching squares are one of the four castle footprints and
\* that castle is a valid move, the king move e1g1, e1c1, e8g8 or e8c8 is
\* applied and saved; the four mismatches are no bad number of differences
C8_CastleFootprint ==
    \A p \in Procs :
        LET f0 == P(p).fileAtCall
            M == Mismatch(f0, phys)
            pos == readState(f0).game
            castles == { m \in ValidMoves(pos) :
                           <<m.s1, m.s2>> = KingMove(M) /\ IsCastle(m) }
        IN  Settled(p) /\ readState(f0).ok /\ M \in Footprints /\ castles # {}
            => /\ P(p).pc = "checkPositionForMoves:saveGame" =>
                    \E m \in castles : P(p).st.game = Apply(pos, m)
               /\ CheckPassed(p) =>
                    \E m \in castles :
                        file = SavedState(Apply(pos, m), readState(f0).graveyard)
               /\ CheckFailed(p) => P(p).body.why \in OutsideErrors

\* a castle of the person was applied and saved
C8_CastleFound ==
    \E p \in Procs :
        /\ CheckPassed(p)
        /\ Mismatch(P(p).fileAtCall, phys) \in Footprints
        /\ file # P(p).fileAtCall

\* C9: when no square mismatches, checkPositionForMoves returns nil, applies
\* no move and does not write the state file
C9_NoMismatchNoMove ==
    \A p \in Procs :
        LET f0 == P(p).fileAtCall
        IN  Settled(p) /\ readState(f0).ok /\ Mismatch(f0, phys) = {}
            => /\ P(p).pc # "checkPositionForMoves:saveGame"
               /\ CheckPassed(p) => file = f0
               /\ CheckFailed(p) => P(p).body.why \in OutsideErrors \ {"write"}

\* the board was as the file says, and checkPositionForMoves returned nil
C9_Quiet ==
    \E p \in Procs :
        /\ CheckPassed(p)
        /\ Mismatch(P(p).fileAtCall, phys) = {}
        /\ file = P(p).fileAtCall

\* C10: when the move picked carries the en-passant tag, makeAMove returns an
\* error: movePiece is not called for it, so the gripper makes no travel, grab
\* or release, the move is not applied and the state file is as it was
C10_EnPassantRefused ==
    \A p \in Procs :
        /\ P(p).fn = "makeAMove" /\ P(p).fr # <<>> => P(p).m.tag # "EnPassant"
        /\ P(p).pc = "makeAMove:saveGame" => P(p).m.tag # "EnPassant"
        /\ P(p).body.why = "can't handle enpassant" =>
             /\ P(p).body.kind = "err"
             /\ ~P(p).moved
             /\ file = P(p).file0
             /\ held = 0

\* an en-passant move was picked and refused
C10_EnPassantPicked ==
    \E p \in Procs :
        /\ P(p).body.why = "can't handle enpassant"
        /\ P(p).pc = "unlock"
\* C11: a wipe called when the state file is already absent (the second of
\* two wipes in a row) returns no error and leaves the file absent
C11_WipeIdempotent ==
    \A p \in Procs :
        P(p).fn = "wipe" /\ P(p).gsCtx = "defer" /\ ~P(p).fileAtCall.exists
        => P(p).body.kind = "ok" /\ ~file.exists

\* the errors of os.ReadFile, json.Unmarshal and chess.FEN
ReadErrors == {"error reading fen", "cannot unmarshal json"}

\* C12: with no state file, getGame gives a new game and an empty graveyard
\* and no error, and the file is still absent after it; so the go command
\* that follows a wipe starts from a new game
C12_NoFileIsNewGame ==
    \A p \in Procs :
        /\ P(p).pc = "checkPositionForMoves:Capture" /\ ~P(p).fileAtCall.exists
             => P(p).st = State(NewGame, <<>>) /\ file = NoFile
        /\ P(p).pc = "makeAMove:pickMove" /\ ~P(p).file0.exists
             => P(p).st = State(NewGame, <<>>) /\ file = NoFile
        /\ P(p).pc = "resetBoard:next" /\ P(p).x = 0 /\ ~P(p).fileAtCall.exists
             => P(p).st = State(NewGame, <<>>) /\ file = NoFile
        /\ P(p).fn = "checkPositionForMoves" /\ ~P(p).fileAtCall.exists
             => P(p).body.why \notin ReadErrors
        /\ P(p).fn = "makeAMove" /\ ~P(p).file0.exists
             => P(p).body.why \notin ReadErrors

\* a wipe has removed the file, and the go command after it has read a new game
C12_GoAfterWipe ==
    \E p \in Procs, q \in Procs :
        /\ ret[q].valid /\ ret[q].cmd = WipeCmd /\ ret[q].res.kind = "ok"
        /\ P(p).cmd = GoCmd(1)
        /\ P(p).pc = "makeAMove:pickMove"
        /\ file = NoFile /\ ~P(p).file0.exists
        /\ P(p).st = State(NewGame, <<>>)

\* the steps of movePiece after the test of the destination
PickupSteps ==
    {"movePiece:setupGripper", "movePiece:travelFrom", "movePiece:descend",
     "movePiece:Grab", "movePiece:get_gripper", "movePiece:retry",
     "movePiece:liftFrom", "movePiece:travelTo", "movePiece:descendTo",
     "movePiece:release", "movePiece:liftTo"}

\* the inner movePiece has its destination
PlacingSteps == {"movePiece:descendTo", "movePiece:release", "movePiece:liftTo"}

\* the movePiece of p found a piece on its destination square
Occupied(p) ==
    /\ Len(P(p).fr) >= 1
    /\ P(p).fr[1].to.k = "sq"
    /\ P(p).all.ok
    /\ P(p).all.color[P(p).fr[1].to.i] # 0

\* C13: when the destination square of movePiece is occupied in the snapshot,
\* the occupant is moved to the graveyard before the moving piece is picked
\* up: while the relocation runs the outer movePiece has made no step of its
\* pick-up, and from the start of the pick-up until the moving piece is set
\* down the destination square is clear.
\* The relocation goes to the slot whose index is the length of the graveyard
\* at that time, and a tracked move has the captured piece appended exactly
\* once, after the relocation returned without error.
C13_CaptureFirst ==
    \A p \in Procs :
        LET pr == P(p)
            g0 == readState(pr.file0).graveyard
            n == Len(pr.st.graveyard)
        IN  /\ Len(pr.fr) = 2
                 => /\ Occupied(p)
                    /\ pr.fr[1].tries = 0 /\ pr.fr[1].c = NoLoc
                    /\ pr.fr[2].from = pr.fr[1].to /\ pr.fr[2].to = Hold
                    /\ pr.fn = "makeAMove" /\ pr.fr[1].tracked
                         => pr.st.graveyard = g0
                    /\ pr.pc \in PlacingSteps
                         => pr.fr[2].c = Loc("grave", 8 - (n % 8), 1 + (n \div 8))
            /\ Len(pr.fr) = 1 /\ Occupied(p) /\ pr.pc \in PickupSteps
                 => /\ pr.pc # "movePiece:liftTo" => phys[pr.fr[1].to.i] = 0
                    /\ pr.fn = "makeAMove" /\ pr.fr[1].tracked
                         => pr.st.graveyard
                              = Append(g0, pr.st.game.board[pr.fr[1].to.i])

\* a tracked capture: the taken pawn is in the second slot and in the
\* graveyard, and the taking piece is about to be picked up
C13_Captured ==
    \E p \in Procs :
        /\ Len(P(p).fr) = 1 /\ Occupied(p) /\ P(p).fr[1].tracked
        /\ P(p).pc = "movePiece:travelFrom"
        /\ Len(P(p).st.graveyard) = 2
        /\ phys[P(p).fr[1].to.i] = 0

\* the point of slot k: beside rank 8 - (k mod 8) of file a, 1 + floor(k / 8)
\* extents out
SlotPoint(k) == Loc("grave", 8 - (k % 8), 1 + (k \div 8))

\* C14: the slot of index k is always the same point: graveyardPosition
\* anchors it on rank 8 - (k mod 8) of file a, at 1 + floor(k / 8) extents,
\* at the graveyard height, for every k >= 0, whether the slot is the source
\* or the destination of the move
C14_SlotOfIndex ==
    \A p \in Procs :
        LET pr == P(p)
        IN  pr.fr # <<>> =>
              /\ Top(pr).from.k = "slot"
                   /\ pr.pc \in PickupSteps \ ({"movePiece:setupGripper"} \cup PlacingSteps)
                   => /\ Top(pr).c = SlotPoint(Top(pr).from.i)
                      /\ Top(pr).z0 = GraveyardZ
              /\ Top(pr).to.k = "slot" /\ pr.pc \in PlacingSteps
                   => Top(pr).c = SlotPoint(Top(pr).to.i)
              /\ Top(pr).from.k = "slot" /\ act.by = "movePiece:descend"
                   => act.loc = SlotPoint(Top(pr).from.i)
              /\ Top(pr).to.k = "slot" /\ act.by = "movePiece:descendTo"
                   => act.loc = SlotPoint(Top(pr).to.i)

\* a piece is set down on slot 17: rank 7 of file a, three extents out
C14_ThirdColumn ==
    \E p \in Procs :
        /\ P(p).fr # <<>>
        /\ Top(P(p)).to = Slot(17)
        /\ P(p).pc = "movePiece:liftTo"
        /\ act.by = "movePiece:release"
        /\ arm = Loc("grave", 7, 3)

\* a is a prefix of b
IsPrefix(a, b) == Len(a) <= Len(b) /\ SubSeq(b, 1, Len(a)) = a

\* C15: no go command shortens or rewrites the graveyard: every state file
\* written has the graveyard of the file before it (the empty graveyard when
\* there was no file) as a prefix, and is longer by at most one entry
C15_GraveyardAppendOnly ==
    [][file' # file /\ file'.exists /\ ~file'.torn
         => LET before == readState(file).graveyard
                after == file'.graveyard
            IN  /\ ~file.torn
                /\ IsPrefix(before, after)
                /\ Len(after) <= Len(before) + 1]_vars

\* a capture was committed on top of a graveyard of one piece
C15_SecondCapture ==
    /\ file.exists /\ ~file.torn
    /\ Len(file.graveyard) = 2
    /\ \E p \in Procs :
         /\ P(p).fn = "makeAMove"
         /\ P(p).file0.exists /\ ~P(p).file0.torn
         /\ P(p).file0.graveyard = <<12>>

\* C16: the holding position "-" resolves in every context and never faults:
\* no command ends in a nil dereference, and a manual move (theState nil) onto
\* an occupied square relocates the occupant and completes
C16_HoldNeverFaults ==
    \A p \in Procs :
        /\ P(p).body.kind # "panic"
        /\ P(p).cmd.N > 0 /\ Len(P(p).fr) = 2 /\ P(p).pc = "movePiece:travelTo"
             => getCenterFor(P(p).all, Hold, P(p).st, FALSE).r = "ok"

\* the rook's squares in each castle, by the king's move
RookShuffle(m) ==
    CASE m.s1 = 4 /\ m.s2 = 6 -> <<7, 5>>
      [] m.s1 = 4 /\ m.s2 = 2 -> <<0, 3>>
      [] m.s1 = 60 /\ m.s2 = 62 -> <<63, 61>>
      [] m.s1 = 60 /\ m.s2 = 58 -> <<56, 59>>
      [] OTHER -> <<-1, -1>>

\* C17: every castle the engine gives (e1-g1, e1-c1, e8-g8, e8-c8) is
\* executed: none is refused as a bad castle, and the rook is moved first,
\* h1-f1, a1-d1, h8-f8 or a8-d8
C17_EveryCastleExecuted ==
    \A p \in Procs :
        /\ P(p).body.why # "bad castle?"
        /\ P(p).mpCtx = "castle" /\ P(p).fr # <<>>
             => /\ P(p).fr[1].from = SqPos(RookShuffle(P(p).m)[1])
                /\ P(p).fr[1].to = SqPos(RookShuffle(P(p).m)[2])

\* the points of the cloud that have colour data and lie under maxZ - 20
QualifyingPoints(pc) ==
    { i \in 1..Len(pc) : pc[i].colored /\ pc[i].z < MaxZ(pc) - 20 }

RECURSIVE SumRGB(_, _)
\* the sum of R + G + B over the points of pc with index in S
SumRGB(pc, S) ==
    IF S = {} THEN 0
    ELSE LET i == CHOOSE j \in S : TRUE
         IN  pc[i].r + pc[i].g + pc[i].b + SumRGB(pc, S \ {i})

\* the mean of the three channel averages is over 128
Bright(pc) == SumRGB(pc, QualifyingPoints(pc)) > 3 * 128 * Cardinality(QualifyingPoints(pc))

\* the claim as it stands: blank exactly when fewer than 10 points qualify
C18_BlankUnderTen ==
    finder.color # -1 =>
        LET n == Cardinality(QualifyingPoints(finder.pc))
        IN  /\ finder.color = 0 <=> n < 10
            /\ n >= 10 => finder.color = IF Bright(finder.pc) THEN 1 ELSE 2

\* C18, amended: estimatePieceColor returns blank exactly when at most 10
\* points qualify (colour data, and Z below maxZ - 20); with 11 or more it
\* returns white when the mean of the average R, G and B is greater than 128,
\* and black otherwise (a brightness of exactly 128 is black)
C18_BlankUpToTen ==
    finder.color # -1 =>
        LET n == Cardinality(QualifyingPoints(finder.pc))
        IN  /\ finder.color = 0 <=> n <= 10
            /\ n >= 11 => finder.color = IF Bright(finder.pc) THEN 1 ELSE 2

\* eleven qualifying points of brightness exactly 128 are a black piece
C18_ElevenGrey ==
    /\ finder.color = 2
    /\ finder.count = 11
    /\ finder.totalR + finder.totalG + finder.totalB = 3 * 128 * 11

\* C19: a cloud with no coloured point under the height threshold is blank,
\* however many points without colour it holds, at any height
C19_UncolouredIsBlank ==
    finder.color # -1 /\ QualifyingPoints(finder.pc) = {} => finder.color = 0

\* a blank square whose cloud has more than ten uncoloured points under the
\* threshold, and an uncoloured top point
C19_ManyUncoloured ==
    /\ finder.color = 0
    /\ QualifyingPoints(finder.pc) = {}
    /\ Cardinality({ i \in 1..Len(finder.pc) :
                       ~finder.pc[i].colored /\ finder.pc[i].z < MaxZ(finder.pc) - 20 }) > 10
    /\ ~finder.pc[Len(finder.pc)].colored

\* the calls of goToStart, and the capture itself
HomingCalls == {"Capture", "SetPosition", "Open", "GetPose"}

\* C20: when the capture of the board fails for a move (of the move, go or
\* reset command) the command returns that error, and for that move the
\* gripper makes no travel, descent, grab or release: after the failed capture
\* the caller only makes the calls of the deferred goToStart
C20_NoMotionBlind ==
    \A p \in Procs :
        /\ P(p).body = Err("capture")
             => /\ ~P(p).moved
                /\ P(p).fr = <<>>
                /\ P(p).pc \in {"goToStart:SetPosition", "goToStart:Open",
                                "goToStart:GetPose", "unlock"}
                /\ P(p).gsCtx = "defer"
                /\ act.p = p /\ act.kind \in HomingCalls
        /\ ret[p].valid /\ ret[p].body = Err("capture")
             => /\ ret[p].res = Err("capture")
                /\ ret[p].last.kind \in HomingCalls

\* the first move of a go command was committed, and the capture for its
\* second move failed: the command is about to return the error
C20_SecondMoveBlind ==
    \E p \in Procs :
        /\ P(p).pc = "unlock" /\ P(p).res = Err("capture")
        /\ P(p).cmd.Go = 2
        /\ P(p).fn = "makeAMove"
        /\ file # P(p).fileAtCall

\* the travel, grab and release commands of movePiece
MotionCalls == {"Move", "Grab", "move_gripper"}

\* C21: once the context of a running command is cancelled, the command
\* issues no further travel, grab or release command for the move (a grab
\* retry included)
C21_StopsWhenCancelled ==
    [][\A p \in Procs :
         P(p).cancelled /\ P(p).fr # <<>> /\ act' # act /\ act'.p = p
           => act'.kind \notin MotionCalls]_vars

\* the steps that write or remove the state file
WriterSteps == {"checkPositionForMoves:saveGame", "makeAMove:saveGame", "wipe"}

\* C22: the state file has one writer at a time: a caller about to write
\* (saveGame) or remove (wipe) the file holds the command lock, no other
\* caller is at such a step, and the file changes only in a step of the
\* lock holder
C22_SingleWriter ==
    [][/\ \A p \in Procs :
            P(p).pc \in WriterSteps
              => /\ lock = p
                 /\ \A q \in Procs \ {p} : P(q).pc \notin WriterSteps
       /\ file' # file
            => /\ lock \in Procs
               /\ P(lock).pc \in WriterSteps
               /\ act'.p = lock /\ act'.kind \in {"WriteFile", "Remove"}]_vars

\* a go command is about to save the game while a wipe waits for the lock
C22_WipeWaits ==
    \E p \in Procs, q \in Procs :
        /\ P(p).pc = "makeAMove:saveGame" /\ lock = p
        /\ P(q).pc = "lock" /\ P(q).cmd = WipeCmd

\* the call got as far as the corner test
CornersSeen(c) ==
    /\ c.path = "pointcloud" => c.src.pcErr = NoError
    /\ c.src.imagesErr = NoError /\ c.src.nImgs > 0
    /\ c.src.decodeErr = NoError /\ c.src.findErr = NoError

\* the source camera returned an error for the point cloud or the image, and
\* nothing failed before it
SourceError(c) ==
    IF c.path = "pointcloud" /\ c.src.pcErr # NoError THEN c.src.pcErr
    ELSE c.src.imagesErr

\* the claim as it stands, in its last part: an error of the source camera for
\* an absent image or point cloud is returned unchanged, on both paths
C23_SourceErrorUnchanged ==
    cam.pc = "done" /\ SourceError(cam) # NoError => cam.err = SourceError(cam)

\* C23, amended: the rectifier fails the call and returns no image or point
\* cloud when the corner finder yields a number of corners other than 4 (both
\* paths) or when the source camera has no intrinsic parameters (point-cloud
\* path); an error of the source camera for an absent image is returned
\* unchanged on the image path, and on the point-cloud path an error of the
\* source camera for an absent point cloud or image is returned wrapped under
\* a text that names the failed step
C23_RectifierErrors ==
    cam.pc = "done" =>
        /\ cam.err # NoError <=> cam.value = "none"
        /\ CornersSeen(cam) /\ cam.src.nCorners # 4
             => cam.err = NewError("expected 4 corners")
        /\ cam.path = "pointcloud" /\ CornersSeen(cam) /\ cam.src.nCorners = 4
             /\ cam.src.propsErr = NoError /\ ~cam.src.intrinsics
             => cam.err = NewError("camera does not have intrinsic parameters")
        /\ SourceError(cam) # NoError
             => /\ cam.path = "image" => cam.err = SourceError(cam)
                /\ cam.path = "pointcloud"
                     => /\ Len(cam.err) = 2
                        /\ Tail(cam.err) = SourceError(cam)
                        /\ cam.err[1] \in {"failed to get pointcloud from source",
                                           "failed to get images from source"}

\* five corners were found on the point-cloud path, and the call failed
C23_FiveCorners ==
    /\ cam.pc = "done" /\ cam.path = "pointcloud"
    /\ CornersSeen(cam) /\ cam.src.nCorners = 5
    /\ cam.value = "none"

\* the point of integer coordinates, as fractions
PointOf(pt) == <<Num(pt[1]), Num(pt[2])>>

\* no three of the four corners are on one line
NoThreeCollinear(c) ==
    \A i \in 1..4, j \in 1..4, k \in 1..4 :
        i < j /\ j < k
          => (c[j][1] - c[i][1]) * (c[k][2] - c[i][2])
               # (c[j][2] - c[i][2]) * (c[k][1] - c[i][1])

\* C24: for every 4-corner input with no three corners on a line and every
\* output size, a corner of the output square mapped through the
\* destination-to-source matrix is the source corner, and that source corner
\* mapped through the source-to-destination matrix is the corner of the
\* square again
C24_HomographyRoundTrip ==
    solve.phase = "done" /\ NoThreeCollinear(solve.src) =>
        \A k \in 1..4 :
            LET d == PointOf(DstPts(solve.n)[k])
                a == applyPerspective(solve.toSrc, d[1], d[2])
            IN  /\ a = PointOf(solve.src[k])
                /\ applyPerspective(solve.toDst, a[1], a[2]) = d

\* the branch of DoCommand the claim gives a decoded command: the first
\* applicable field in the order move, go, reset, wipe, center, skill
FirstApplicable(c) ==
    CASE c.From # Empty /\ c.To # Empty -> "move"
      [] ~(c.From # Empty /\ c.To # Empty) /\ c.Go > 0 -> "checkPositionForMoves"
      [] OTHER ->
           IF c.Reset THEN "resetBoard"
           ELSE IF c.Wipe THEN "wipe"
           ELSE IF c.Center THEN "centerCamera"
           ELSE IF c.Skill > 0 THEN "skill"
           ELSE ""

\* C25: every DoCommand call returns a result or an error; a decoded command
\* takes the branch of its first applicable field in the order move, go,
\* reset, wipe, center, skill; a command with none of them returns the error
\* 'bad cmd' and changes neither the state file nor the skill setting; a skill
\* command stores the new skill value and leaves the state file as it is
C25_ResultOrError ==
    [][\A p \in Procs :
         LET c == P(p).cmd
         IN  /\ proc'[p].pc = "unlock" => proc'[p].body.kind \in {"ok", "err"}
             /\ P(p).pc = "decode" /\ proc'[p].pc # "decode" /\ c.decodes =>
                  /\ proc'[p].fn = FirstApplicable(c)
                  /\ FirstApplicable(c) = "" =>
                       proc'[p].body = Err("bad cmd") /\ skillAdjust' = skillAdjust
                  /\ FirstApplicable(c) = "skill" =>
                       proc'[p].body = Ok /\ skillAdjust' = c.Skill
             /\ lock = p /\ c.decodes /\ FirstApplicable(c) \in {"", "skill"} =>
                  /\ file' = file
                  /\ P(p).pc # "decode" => skillAdjust' = skillAdjust]_vars

\* the command that comes before each command of movePiece for the moved
\* piece: the step that issued it
Before(step) ==
    CASE step = "movePiece:travelFrom" -> {"movePiece:setupGripper"}
      [] step = "movePiece:descend" -> {"movePiece:travelFrom", "movePiece:retry"}
      [] step = "movePiece:Grab" -> {"movePiece:descend"}
      [] step = "movePiece:get_gripper" -> {"movePiece:Grab"}
      [] step = "movePiece:retry" -> {"movePiece:get_gripper"}
      [] step = "movePiece:liftFrom" -> {"movePiece:get_gripper"}
      [] step = "movePiece:travelTo" -> {"movePiece:liftFrom"}
      [] step = "movePiece:descendTo" -> {"movePiece:travelTo"}
      [] step = "movePiece:release" -> {"movePiece:descendTo"}
      [] step = "movePiece:liftTo" -> {"movePiece:release"}
      [] OTHER -> {}

\* the kind of command of each step
KindOf(step) ==
    IF step \in {"movePiece:setupGripper", "movePiece:retry", "movePiece:release"}
    THEN "move_gripper"
    ELSE IF step = "movePiece:Grab" THEN "Grab"
    ELSE IF step = "movePiece:get_gripper" THEN "get_gripper"
    ELSE "Move"

\* C26: the commands of a movePiece for the moved piece come in the order
\* travel above from at the safe height, descent at from, grab (then retry
\* descents and grabs), lift at from to the safe height, travel above to at
\* the safe height, descent at to, release, lift at to to the safe height:
\* each command comes right after the one before it in this order, at the
\* place this order gives it, and movePiece returns success only from the
\* last one
C26_CommandOrder ==
    [][\A p \in Procs :
         /\ act' # act /\ act'.p = p /\ Before(act'.by) # {} =>
              LET f == Top(P(p))
                  from == getCenterFor(P(p).all, f.from, P(p).st, f.tracked).loc
                  to == getCenterFor(P(p).all, f.to, P(p).st, f.tracked).loc
              IN  /\ act.p = p /\ act.by \in Before(act'.by)
                  /\ act'.kind = KindOf(act'.by)
                  /\ act'.by \in {"movePiece:travelFrom", "movePiece:liftFrom"} =>
                       act'.loc = from /\ act'.z = safeZ
                  /\ act'.by \in {"movePiece:descend", "movePiece:Grab",
                                  "movePiece:get_gripper", "movePiece:retry"} =>
                       act'.loc = from /\ arm = from
                  /\ act'.by \in {"movePiece:travelTo", "movePiece:liftTo"} =>
                       act'.loc = to /\ act'.z = safeZ
                  /\ act'.by \in {"movePiece:descendTo", "movePiece:release"} =>
                       act'.loc = to /\ arm = to
         /\ P(p).fr # <<>> /\ P(p).pc \in PickupSteps
              /\ (Len(proc'[p].fr) < Len(P(p).fr)) /\ ~proc'[p].failed
              /\ proc'[p].body.kind = "ok" =>
                 act'.by = "movePiece:liftTo" /\ act'.kind = "Move"]_vars

\* a movePiece of a go command has returned success after its last lift
C26_MovedAndSetDown ==
    \E p \in Procs :
        /\ P(p).pc = "makeAMove:saveGame"
        /\ act.by = "movePiece:liftTo" /\ act.z = safeZ
        /\ act.loc = Loc("center", P(p).m.s2, 0)

\* C27: of any two consecutive pose targets that the movePiece calls of one
\* command give the gripper (the call that clears the destination and the
\* rook's move of a castle included), two at different places are both at the
\* safe height
C27_TravelAtSafeHeight ==
    [][\A p \in Procs :
         /\ act' # act /\ act'.p = p /\ act'.kind = "Move"
         /\ P(p).target # NoAction /\ P(p).target.loc # act'.loc
         => /\ P(p).target.z = safeZ /\ act'.z = safeZ
            /\ proc'[p].pc \in PickupSteps => proc'[p].target = act']_vars

\* the king of a castle is on its way after the rook was set down
C27_KingAfterRook ==
    \E p \in Procs :
        /\ P(p).pc = "movePiece:descend" /\ P(p).mpCtx = "makeAMove"
        /\ IsCastle(P(p).m)
        /\ act.by = "movePiece:travelFrom" /\ P(p).target = act
        /\ act.loc.i = P(p).m.s1

\* the caller of movePiece has got an error from it
Aborted(pr) == pr.fr = <<>> /\ pr.failed /\ pr.body.kind = "err" /\ pr.gsCtx = "defer"

\* C28: myGrab reports a grab exactly when Grab returned true and the position
\* read back is 20 or more; a Grab that returned true with a position under
\* 20 is no grab and no error (the retry decision is taken); an error of Grab
\* or of the query, or a position that is not a number, ends the move with an
\* error
C28_GrabNeedsBoth ==
    [][\A p \in Procs :
         /\ P(p).pc = "movePiece:get_gripper" /\ proc'[p].pc # P(p).pc =>
              LET f == Top(P(p))
                  r == act'.z
              IN  /\ act'.kind = "get_gripper"
                  /\ proc'[p].pc = "movePiece:liftFrom" <=> f.got /\ r >= GripMin
                  /\ r >= 0 /\ ~(f.got /\ r >= GripMin) =>
                       IF f.useZ - RetryStep >= FloorZ
                       THEN proc'[p].pc = "movePiece:retry"
                       ELSE /\ Aborted(proc'[p])
                            /\ Len(P(p).fr) = 1 =>
                                 proc'[p].body.why = "couldn't grab, and scared to go lower"
                  /\ r < 0 => /\ Aborted(proc'[p])
                              /\ Len(P(p).fr) = 1 =>
                                   proc'[p].body.why \in {"get_gripper", "Why is get_gripper weird"}
         /\ P(p).pc = "movePiece:Grab" /\ proc'[p].pc \notin {P(p).pc, "movePiece:get_gripper"} =>
              /\ Aborted(proc'[p])
              /\ Len(P(p).fr) = 1 => proc'[p].body.why = "Grab"]_vars

\* Grab returned true, the position read back is under 20, and movePiece goes
\* round again
C28_WeakGrip ==
    \E p \in Procs :
        /\ P(p).pc = "movePiece:retry" /\ Top(P(p)).got
        /\ act.kind = "get_gripper" /\ act.z >= 0 /\ act.z < GripMin

\* C29: between a grab that failed and the next grab, movePiece opens the
\* gripper once and then descends once, 10 lower than the descent before: the
\* grab after k failed ones is made at the height Z0 - 10 * k, Z0 the height
\* of the target at the source square, and at the X, Y of that target
C29_RetryTenLower ==
    [][\A p \in Procs :
         act' # act /\ act'.p = p /\ P(p).fr # <<>> =>
             LET f == Top(P(p))
             IN  /\ act'.by = "movePiece:retry" =>
                     /\ act.by = "movePiece:get_gripper" /\ act'.kind = "move_gripper"
                     /\ f.tries >= 1
                 /\ act'.by = "movePiece:descend" =>
                     /\ act'.kind = "Move" /\ act'.loc = f.c
                     /\ act'.z = f.z0 - RetryStep * f.tries
                     /\ f.tries >= 1 =>
                          act.by = "movePiece:retry" /\ act.kind = "move_gripper"
                 /\ act'.by = "movePiece:Grab" =>
                     /\ act.by = "movePiece:descend" /\ act.kind = "Move"
                     /\ act.loc = f.c /\ arm = f.c
                     /\ act.z = f.z0 - RetryStep * f.tries]_vars

\* the descent for the second grab has been made, 10 under the first
C29_SecondAttempt ==
    \E p \in Procs :
        /\ P(p).pc = "movePiece:Grab" /\ Top(P(p)).tries = 1
        /\ act.by = "movePiece:descend" /\ act.z = Top(P(p)).z0 - RetryStep

\* the heights getCenterFor gives for the destination of the movePiece of p
DestinationZs(p) ==
    getCenterFor(P(p).all, Top(P(p)).to, P(p).st, Top(P(p)).tracked).zs

\* C30 as claimed: the descent at the destination is to the Z of the target
\* computed for the destination (the centre of an empty square, the blended
\* point of an occupied one), whatever the height at the source and the
\* number of retries
C30_DestinationHeight ==
    \A p \in Procs :
        P(p).pc = "movePiece:release" /\ act.by = "movePiece:descendTo"
          => act.z \in DestinationZs(p)

\* C30: the descent at the destination is to the height of the last descent
\* at the source, the Z of the target computed for the source square less 10
\* for each retry of the grab; the target computed for the destination gives
\* its X and Y only
C30_PlacedAtPickupHeight ==
    \A p \in Procs :
        P(p).pc = "movePiece:release" /\ act.by = "movePiece:descendTo"
          => /\ act.kind = "Move"
             /\ act.z = Top(P(p)).z0 - RetryStep * (Top(P(p)).tries - 1)
             /\ act.loc = getCenterFor(P(p).all, Top(P(p)).to, P(p).st,
                                       Top(P(p)).tracked).loc

\* a piece grabbed at the second attempt is set down on an empty square
C30_SetDownAfterRetry ==
    \E p \in Procs :
        /\ P(p).pc = "movePiece:release" /\ act.by = "movePiece:descendTo"
        /\ Top(P(p)).tries = 2
        /\ DestinationZs(p) = {BoardZ}
        /\ act.z # BoardZ

\* C31: a go command of count N runs checkPositionForMoves once, before the
\* first makeAMove, then N makeAMove calls one after the other; each loads the
\* state file before it picks its move, moves the piece, applies the move and
\* saves; the next one starts from the file just saved; a failing move ends
\* the command with the file as the last completed move left it (a write that
\* failed apart); success is returned after the N-th save, with that move
C31_GoRunsInSequence ==
    [][\A p \in Procs :
         LET pr == P(p)
             nx == proc'[p]
         IN  /\ nx.pc = "checkPositionForMoves:getGame" /\ pr.pc # nx.pc =>
                  pr.pc = "decode" /\ pr.cmd.Go > 0
             /\ nx.pc = "goToStart:SetPosition" /\ nx.gsCtx = "makeAMove"
                  /\ pr.pc # nx.pc =>
                  /\ nx.file0 = file'
                  /\ \/ /\ pr.fn = "checkPositionForMoves" /\ nx.x = 0
                        /\ pr.pc \in {"checkPositionForMoves:Capture",
                                      "checkPositionForMoves:saveGame"}
                     \/ /\ pr.pc = "makeAMove:saveGame" /\ nx.x = pr.x + 1
                        /\ nx.x < pr.cmd.Go
                        /\ file' = saveGame(pr.st)
             /\ pr.pc = "makeAMove:pickMove" =>
                  pr.st = readState(file) /\ file = pr.file0
             /\ pr.pc = "makeAMove:saveGame" =>
                  /\ pr.moved /\ ~pr.failed /\ file = pr.file0
                  /\ pr.st.game = Apply(readState(file).game, pr.m)
             /\ pr.cmd.Go > 0 /\ pr.fn \in {"checkPositionForMoves", "makeAMove"}
                  /\ nx.gsCtx = "defer" /\ pr.gsCtx # "defer" /\ nx.body.kind = "ok" =>
                  /\ pr.pc = "makeAMove:saveGame"
                  /\ pr.x + 1 = pr.cmd.Go
                  /\ nx.body.move = pr.m
                  /\ file' = saveGame(pr.st)
             /\ pr.fn = "makeAMove" /\ pr.gsCtx = "defer" /\ pr.body.kind # "ok"
                  /\ pr.body.why # "write" =>
                  file = pr.file0]_vars

\* a go command of two moves has returned its second move
C31_TwoMovesPlayed ==
    \E p \in Procs :
        /\ P(p).pc = "unlock" /\ P(p).cmd.Go = 2
        /\ P(p).body.kind = "ok" /\ P(p).body.move # NoMove
        /\ file # P(p).fileAtCall

\* the steps of goToStart
HomingSteps == {"goToStart:SetPosition", "goToStart:Open", "goToStart:GetPose"}

\* C32: a move command of count N calls movePiece N times unless a call
\* fails; each call comes right after a vision capture that comes right after
\* a goToStart, and moves from -> to when its round x (0, 1, ...) is even and
\* to -> from when it is odd; a failure ends the command; with N = 0 there is
\* no call and the command returns success; the state file is neither read
\* nor written
C32_MoveRepeats ==
    [][\A p \in Procs :
         LET pr == P(p)
             nx == proc'[p]
             c == pr.cmd
         IN  nx.fn = "move" /\ lock = p /\ nx # pr =>
             /\ file' = file
             /\ pr.pc = "decode" /\ c.N = 0 => nx.gsCtx = "defer" /\ nx.body = Ok
             /\ act'.kind \notin {"ReadFile", "WriteFile", "Remove"}
             /\ nx.pc = "move:Capture" =>
                  pr.pc \in HomingSteps /\ pr.gsCtx = "move" /\ nx.x < c.N
             /\ nx.pc = "movePiece:begin" /\ Len(nx.fr) = 1 /\ pr.pc # nx.pc =>
                  /\ pr.pc = "move:Capture" /\ act'.kind = "Capture"
                  /\ nx.all = Snap(phys)
                  /\ Top(nx).from = (IF pr.x % 2 = 0 THEN c.From ELSE c.To)
                  /\ Top(nx).to = (IF pr.x % 2 = 0 THEN c.To ELSE c.From)
             /\ nx.gsCtx # "defer" /\ nx.x # pr.x =>
                  pr.pc = "movePiece:liftTo" /\ nx.x = pr.x + 1 /\ nx.x < c.N
             /\ pr.failed => pr.gsCtx = "defer"
             /\ nx.gsCtx = "defer" /\ pr.gsCtx # "defer" /\ nx.body.kind = "ok" =>
                  \/ pr.pc = "movePiece:liftTo" /\ pr.x + 1 = c.N
                  \/ pr.pc = "decode" /\ c.N = 0
         ]_vars

\* the second round of a move command has moved the piece back
C32_ThereAndBack ==
    \E p \in Procs :
        /\ P(p).pc = "unlock" /\ P(p).fn = "move" /\ P(p).cmd.N = 2
        /\ P(p).body.kind = "ok"
        /\ act.by = "defer"
        /\ phys[P(p).cmd.From.i] # 0 /\ phys[P(p).cmd.To.i] = 0

\* C33: in a run of go commands no two captured pieces are set down in the
\* same graveyard slot: the slot a captured piece is released in holds no
\* piece released there before
C33_GraveyardSlotsDistinct ==
    [][\A p \in Procs :
         P(p).pc = "movePiece:release" /\ held # 0 /\ held' = 0
           /\ arm.at = "grave"
           => arm \notin yard]_vars

\* C34: every write of the state file stores the position that one valid move
\* makes of the position in the file before the write, which is the position
\* the writing step (makeAMove or checkPositionForMoves) loaded when it began
C34_OneLegalMovePerWrite ==
    [][file' # file /\ file'.exists /\ ~file'.torn =>
         /\ ~file.torn
         /\ \E m \in ValidMoves(readState(file).game) :
                file'.fen = Apply(readState(file).game, m)
         /\ lock \in Procs
         /\ P(lock).fn \in {"makeAMove", "checkPositionForMoves"}
         /\ P(lock).fn = "makeAMove" => P(lock).file0 = file
         /\ P(lock).fn = "checkPositionForMoves" => P(lock).fileAtCall = file]_vars

\* checkPositionForMoves has written the move it found on the board
C34_FoundMoveWritten ==
    \E p \in Procs :
        /\ P(p).fn = "makeAMove" /\ P(p).x = 0 /\ P(p).pc = "makeAMove:getGame"
        /\ P(p).file0 = file /\ file # P(p).fileAtCall
        /\ file.exists /\ ~file.torn

(***************************************************************************)
(* C35: a grabbed piece and the gripper.                                   *)
(***************************************************************************)
\* the calls that open the gripper: gripper.Open (line 505) and the arm's
\* move_gripper command of setupGripper (line 521)
OpensGripper(a) == a.kind \in {"Open", "move_gripper"}

\* C35: in every DoCommand execution, between a successful grab and the
\* descent at the destination no call that opens the gripper is issued, on
\* failing paths as well as on successful ones
C35_HeldUntilDestination ==
    [][\A p \in Procs :
         act' # act /\ act'.p = p /\ OpensGripper(act') => ~P(p).gripped]_vars

(***************************************************************************)
(* C36: the depth of the capture relocation.                               *)
(***************************************************************************)
\* C36: a movePiece call makes at most one recursive movePiece call, made
\* before its own pick-up, with destination "-" and the call's destination as
\* source; that call makes no recursive call, so at most one movePiece is
\* nested in another (a movePiece that starts when the last step of another
\* has returned, the rook of a castle, is a call of makeAMove)
C36_RecursionDepthOne ==
    [][\A p \in Procs :
         LET pr == P(p)
             nx == proc'[p]
         IN  /\ Len(nx.fr) <= 2
             /\ Len(nx.fr) > Len(pr.fr) /\ pr.fr # <<>> =>
                   /\ Len(pr.fr) = 1
                   /\ pr.pc = "movePiece:begin"
                   /\ nx.fr = Append(pr.fr, Frame(Top(pr).to, Hold, Top(pr).tracked))
             /\ Len(pr.fr) = 2 /\ Len(nx.fr) = 1 => nx.pc = "movePiece:setupGripper"
             /\ /\ Len(pr.fr) = 1 /\ Len(nx.fr) = 1
                /\ pr.pc \notin {"movePiece:begin", "movePiece:liftTo"}
                => nx.pc # "movePiece:begin"]_vars

\* the relocation of a captured piece has returned and the capturing piece is
\* being moved
C36_RelocationReturned ==
    \E p \in Procs :
        /\ Len(P(p).fr) = 1
        /\ P(p).pc = "movePiece:travelTo"
        /\ P(p).all.color[Top(P(p)).to.i] # 0
        /\ Top(P(p)).to.k = "sq"

(***************************************************************************)
(* C37: resetBoard and the state file.                                     *)
(***************************************************************************)
\* the ways resetBoard ends before its wipe: the error of getGame, of
\* nextResetMove, of goToStart, of the capture or of movePiece
ResetErrors(pr) ==
    CASE pr.pc = "resetBoard:getGame" -> {Err("error reading fen"), Err("cannot unmarshal json")}
      [] pr.pc = "resetBoard:next" -> {Err("nextResetMove")}
      [] pr.pc \in HomingSteps -> {Err("goToStart")}
      [] pr.pc = "resetBoard:Capture" -> {Err("capture")}
      [] OTHER -> {r \in {Err(w) : w \in {"can't move", "move_gripper", "Grab", "get_gripper",
                                          "Why is get_gripper weird", "can't find object",
                                          "couldn't grab, and scared to go lower",
                                          "can't move piece out of the way",
                                          "why no object", "bad special graveyard"}} : TRUE}

\* C37: resetBoard deletes the state file only after every reset move has been
\* executed successfully, each reset move coming after a return to start and a
\* fresh capture; when loading the state, a capture or a reset move fails,
\* resetBoard returns that error and the state file is as it was at the call
C37_ResetDeletesLast ==
    [][\A p \in Procs :
         LET pr == P(p)
             nx == proc'[p]
         IN  pr.fn = "resetBoard" /\ nx # pr /\ pr.gsCtx # "defer" =>
               /\ file' # file =>
                     /\ pr.pc = "wipe" /\ file' = NoFile
                     /\ ~pr.failed /\ pr.mpRes = Ok /\ nx.body = Ok
               /\ pr.pc # "wipe" => file' = file /\ file = pr.fileAtCall
               /\ nx.pc = "movePiece:begin" /\ pr.fr = <<>> =>
                     /\ pr.pc = "resetBoard:Capture"
                     /\ nx.all = Snap(phys)
               /\ nx.pc = "resetBoard:Capture" =>
                     /\ pr.pc = "goToStart:GetPose" /\ pr.gsCtx = "resetBoard"
                     /\ arm = StartLoc
               /\ nx.gsCtx = "defer" /\ pr.pc # "wipe" => nx.body \in ResetErrors(pr)]_vars

(***************************************************************************)
(* C38: what the point cloud filter keeps.                                 *)
(***************************************************************************)
\* the points of pc whose pixel lies inside the polygon of the corners
InsideBoard(pc, corners) ==
    {pt \in pc : pointInPolygon(PointToPixel(pt)[1], PointToPixel(pt)[2], corners)}

\* C38: the filtered cloud holds exactly the input points whose projection
\* lies inside the polygon of the four corners, one output point for each,
\* with the depth and the data of the input point and X and Y remapped; it
\* never holds more points than the input
C38_KeepsPointsInside ==
    cloud.phase = "done" =>
      LET kept == InsideBoard(cloud.pc, cloud.corners)
      IN  /\ Cardinality(cloud.filtered) = Cardinality(kept)
          /\ \A pt \in kept : Transformed(cloud.matrix, cloud.n, pt) \in cloud.filtered
          /\ \A q \in cloud.filtered :
               \E pt \in kept : q.z = Num(pt.z) /\ q.d = pt.d
          /\ Cardinality(cloud.filtered) <= Cardinality(cloud.pc)

(***************************************************************************)
(* C39: the pixels bilinearSample reads.                                   *)
(***************************************************************************)
\* image.Point.In(bounds)
InBounds(px, bounds) ==
    /\ bounds.Min[1] <= px[1] /\ px[1] < bounds.Max[1]
    /\ bounds.Min[2] <= px[2] /\ px[2] < bounds.Max[2]

\* C39: for every sample coordinate, negative ones and ones beyond the right
\* or bottom edge included, each of the four pixels bilinearSample reads lies
\* within the bounds of the source image
C39_SamplesInBounds ==
    sample.phase = "done" =>
      \A i \in 1..4 : InBounds(sample.read[i], sample.bounds)

(***************************************************************************)
(* C40: what a successful capture holds.                                   *)
(***************************************************************************)
\* image.Rectangle.Overlaps: an empty rectangle overlaps nothing
Overlaps(r, s) ==
    /\ r.minX < r.maxX /\ r.minY < r.maxY
    /\ s.minX < s.maxX /\ s.minY < s.maxY
    /\ r.minX < s.maxX /\ s.minX < r.maxX
    /\ r.minY < s.maxY /\ s.minY < r.maxY

\* the cell of the image grid that shows the square: a1 is top right for the
\* camera, h8 bottom left
CellOf(sq) == <<7 - FileOf(sq), RankOf(sq)>>

\* C40: a successful capture holds 64 objects, one for each square a1..h8,
\* labelled with the square's name and the colour code (0, 1 or 2) of the
\* points over the square; the squares' rectangles have side height / 8 and
\* are pairwise disjoint; and it holds two detections per square, one with
\* the object's label over the square's rectangle and one with "x-" before
\* that label
C40_SixtyFourObjects ==
    vis.pc = "done" /\ vis.err = NoError =>
      LET side == vis.in.size[2] \div 8
          Code(sq) == IF side = 0 THEN 0
                      ELSE estimatePieceColor(vis.in.view[CellOf(sq)])
      IN  /\ Len(vis.objects) = 64
          /\ \A sq \in Squares :
               /\ Cardinality({i \in 1..64 :
                     vis.objects[i].label.name = <<FileOf(sq), RankOf(sq) + 1>>}) = 1
               /\ vis.objects[sq + 1].label =
                     Label(<<FileOf(sq), RankOf(sq) + 1>>, Code(sq), FALSE)
               /\ Code(sq) \in {0, 1, 2}
          /\ Len(vis.detections) = 128
          /\ \A i \in 1..64 :
               /\ vis.detections[2 * i - 1].label = vis.objects[i].label
               /\ vis.detections[2 * i].label =
                     [vis.objects[i].label EXCEPT !.low = TRUE]
               /\ LET r == vis.detections[2 * i - 1].bounds
                  IN  /\ r.maxX - r.minX = side /\ r.maxY - r.minY = side
                      /\ \A j \in 1..64 :
                           i # j => ~Overlaps(r, vis.detections[2 * j - 1].bounds)
          /\ Cardinality({vis.detections[i].label : i \in 1..128}) = 128

\* a capture of an image with squares of two pixels has returned, with pieces
\* of both colours seen
C40_CaptureReturned ==
    /\ vis.pc = "done" /\ vis.err = NoError
    /\ vis.in.size[2] \div 8 = 2
    /\ \E i, j \in 1..64 : vis.objects[i].label.code = 1 /\ vis.objects[j].label.code = 2
====
